---------------------------- MODULE Spec2Model ----------------------------
(***************************************************************************)
(* Jossy-Diva stock console: the in-memory (mock) store behind salesApi    *)
(* and ordersApi, the Orders screen in its three revisions, and the auth   *)
(* token shared by every request.                                          *)
(*                                                                         *)
(* Timestamps (createdAt, updatedAt), product and customer names and media *)
(* play no part in any modelled decision and are left out of the records.  *)
(***************************************************************************)
EXTENDS Integers, Sequences, FiniteSets, Bags, TLC

VARIABLES
    mockProducts,   \* lib/api.ts mockProducts: id -> [costPrice, sellingPrice, quantity]
    mockSales,      \* lib/api.ts mockSales: sequence of Sale records
    nextSaleId,     \* lib/api.ts nextSaleId
    mockOrders,     \* lib/api.ts mockOrders: id -> [items, status]
    lastCall,       \* the last store call and how it ended (its returned error)
    deducted,       \* per order: how many times its items were taken from stock
    revision,       \* which revision of the Orders screen is mounted
    allOrders,      \* Orders: the loaded list (orders / allOrders), order id -> status
    loading,        \* Orders: loading
    selectedOrder,  \* Orders: selectedOrder, the order shown in the detail dialog
    cancelDialogOpen, \* Orders: cancelDialogOpen
    updating,       \* Orders: updating
    inflight,       \* Orders: the bag of requests the screen awaits
    authToken,      \* lib/api.ts authToken
    storedToken,    \* localStorage entry 'auth_token'
    location,       \* window.location.href
    lastRequest,    \* the last auth-related call and the HTTP status it met
    call,           \* the last call of a pure function: its name and argument
    result,         \* what that call returned
    nextProductId,  \* lib/api.ts nextProductId
    today,          \* the day of the calls (new Date()), a day of February 2026
    productList,    \* Sales: products, the loaded list, product id -> product
    salesLoading,   \* Sales: loading
    selectedProduct, \* Sales: selectedProduct
    quantity,       \* Sales: quantity
    paymentMethod,  \* Sales: paymentMethod
    submitting,     \* Sales: submitting
    saleSuccess,    \* Sales: success
    productLoads,   \* Sales: loadProducts calls awaiting productsApi.getAll
    saleRequest,    \* Sales: the salesApi.create call handleSubmitSale awaits
    resetTimer,     \* Sales: the setTimeout of handleSubmitSale is pending
    orders,         \* Orders (latest): orders, the displayed list, order id -> status
    search,         \* Orders (latest): search, as characters
    statusFilter,   \* Orders (latest): statusFilter
    startDate,      \* Orders (latest): startDate
    endDate,        \* Orders (latest): endDate
    specificDate,   \* Orders (latest): specificDate
    todayFilter,    \* Orders (latest): todayFilter
    showDateFilters, \* Orders (latest): showDateFilters
    lastParams,     \* Orders (latest): params of the last ordersApi.getAll call
    route,          \* App.tsx Routes: the page that is mounted, of Login and Inventory
    loginLoading,   \* Login: loading
    loginRequest,   \* Login: the authApi.login call handleSubmit awaits
    inventoryList,  \* Inventory: products, the ids of the loaded list
    inventoryLoading, \* Inventory: loading
    inventoryLoads, \* Inventory: loadProducts calls awaiting productsApi.getAll
    dialogOpen,     \* Inventory: dialogOpen
    editingProduct, \* Inventory: editingProduct, a product id
    formSubmitting, \* Inventory: submitting
    formRequest     \* Inventory: the productsApi call handleSubmit awaits

storeVars == <<mockProducts, mockSales, nextSaleId, mockOrders, lastCall, deducted>>

screenVars == <<revision, allOrders, loading, selectedOrder, cancelDialogOpen, updating, inflight>>

authVars == <<authToken, storedToken, location, lastRequest>>

pureVars == <<call, result>>

inventoryVars == <<nextProductId, today>>

\* The variables of the parts that do not touch the store's sales and orders,
\* the Orders screen of the first sections, the token or the pure functions.
salesVars == <<productList, salesLoading, selectedProduct, quantity, paymentMethod, submitting,
               saleSuccess, productLoads, saleRequest, resetTimer>>

filterVars == <<orders, search, statusFilter, startDate, endDate, specificDate, todayFilter,
                showDateFilters, lastParams>>

formVars == <<route, loginLoading, loginRequest, inventoryList, inventoryLoading,
              inventoryLoads, dialogOpen, editingProduct, formSubmitting, formRequest>>

restVars == <<inventoryVars, salesVars, filterVars, formVars>>

vars == <<mockProducts, mockSales, nextSaleId, mockOrders, lastCall, deducted,
          revision, allOrders, loading, selectedOrder, cancelDialogOpen, updating, inflight,
          authToken, storedToken, location, lastRequest, call, result,
          nextProductId, today,
          productList, salesLoading, selectedProduct, quantity, paymentMethod, submitting,
          saleSuccess, productLoads, saleRequest, resetTimer,
          orders, search, statusFilter, startDate, endDate, specificDate, todayFilter,
          showDateFilters, lastParams,
          route, loginLoading, loginRequest, inventoryList, inventoryLoading,
          inventoryLoads, dialogOpen, editingProduct, formSubmitting, formRequest>>

---------------------------------------------------------------------------
(* Bounds of the model.                                                    *)

\* The store starts with stock for k fulfilments of every fixture order,
\* for any k from 0 to this bound.
MaxFulfilments == 2
\* Largest quantity passed to salesApi.create.
MaxSaleQty == 2
\* Sales recorded on top of the fixture sales before salesApi.create is cut off.
MaxSales == 1
\* Requests the Orders screen may await at once before Refresh is cut off.
MaxInFlight == 2

---------------------------------------------------------------------------
(* Fixture data: lib/api.ts mockProducts, mockSales, mockOrders.  The      *)
(* model keeps two of the fixture's orders, the pending single-item order  *)
(* o4 and the paid two-item order o2, and the products they refer to.      *)

ProductIds == {"4", "6", "9"}

\* A product id no product carries ('Product not found').
MissingProductId == "99"

FixtureProduct(id) ==
    CASE id = "4" -> [costPrice |-> 2000,  sellingPrice |-> 4500,  quantity |-> 20]
      [] id = "6" -> [costPrice |-> 5000,  sellingPrice |-> 12000, quantity |-> 8]
      [] id = "9" -> [costPrice |-> 3500,  sellingPrice |-> 7000,  quantity |-> 10]

FixtureSales ==
    << [id |-> 1, productId |-> "1", quantity |-> 2, unitPrice |-> 15000, costPrice |-> 8000,
        totalAmount |-> 30000, profit |-> 14000, paymentMethod |-> "cash"],
       [id |-> 2, productId |-> "3", quantity |-> 1, unitPrice |-> 45000, costPrice |-> 25000,
        totalAmount |-> 45000, profit |-> 20000, paymentMethod |-> "transfer"],
       [id |-> 3, productId |-> "6", quantity |-> 1, unitPrice |-> 12000, costPrice |-> 5000,
        totalAmount |-> 12000, profit |-> 7000, paymentMethod |-> "cash"],
       [id |-> 4, productId |-> "4", quantity |-> 3, unitPrice |-> 4500, costPrice |-> 2000,
        totalAmount |-> 13500, profit |-> 7500, paymentMethod |-> "transfer"],
       [id |-> 5, productId |-> "7", quantity |-> 1, unitPrice |-> 9500, costPrice |-> 5000,
        totalAmount |-> 9500, profit |-> 4500, paymentMethod |-> "cash"] >>

OrderIds == {"o2", "o4"}

\* An order id no order carries ('Order not found').
MissingOrderId == "o9"

FixtureOrder(id) ==
    CASE id = "o2" -> [items |-> << [productId |-> "6", quantity |-> 2, unitPrice |-> 12000],
                                    [productId |-> "9", quantity |-> 1, unitPrice |-> 7000] >>,
                       status |-> "paid"]
      [] id = "o4" -> [items |-> << [productId |-> "4", quantity |-> 5, unitPrice |-> 4000] >>,
                       status |-> "pending"]

\* types: OrderStatus, PaymentMethod
OrderStatus == {"pending", "paid", "completed", "cancelled"}
PaymentMethod == {"cash", "transfer"}

\* A unit price below every cost price (a sale at a loss).
LossPrice == 1000

RECURSIVE ItemsDemand(_, _)
\* Quantity of product pid asked for by the items of one order.
ItemsDemand(items, pid) ==
    IF items = << >> THEN 0
    ELSE (IF Head(items).productId = pid THEN Head(items).quantity ELSE 0)
         + ItemsDemand(Tail(items), pid)

RECURSIVE OrdersDemand(_, _)
\* Quantity of product pid asked for by the fixture orders in the set os.
OrdersDemand(os, pid) ==
    IF os = {} THEN 0
    ELSE LET o == CHOOSE x \in os : TRUE
         IN ItemsDemand(FixtureOrder(o).items, pid) + OrdersDemand(os \ {o}, pid)

Demand(pid) == OrdersDemand(OrderIds, pid)

\* The initial stock levels of the model: k times what the fixture orders ask.
InitialStock == { [p \in ProductIds |-> k * Demand(p)] : k \in 0..MaxFulfilments }

NoCall == [op |-> "none", error |-> "none"]

---------------------------------------------------------------------------
(* salesApi.create on the mock store.                                      *)

\* NewSale with the cost price taken once per sale instead of once per unit.
NewSaleCostOnce(product, data, unitPrice, saleId) ==
    [id            |-> saleId,
     productId     |-> data.productId,
     quantity      |-> data.quantity,
     unitPrice     |-> unitPrice,
     costPrice     |-> product.costPrice,
     totalAmount   |-> unitPrice * data.quantity,
     profit        |-> unitPrice * data.quantity - product.costPrice,
     paymentMethod |-> data.paymentMethod]

\* The Sale record built by salesApi.create.
NewSale(product, data, unitPrice, saleId) ==
    [id            |-> saleId,
     productId     |-> data.productId,
     quantity      |-> data.quantity,
     unitPrice     |-> unitPrice,
     costPrice     |-> product.costPrice,
     totalAmount   |-> unitPrice * data.quantity,
     profit        |-> (unitPrice - product.costPrice) * data.quantity,
     paymentMethod |-> data.paymentMethod]

\* SaleError without the stock check.
SaleErrorNoStockCheck(products, data) ==
    IF data.productId \notin DOMAIN products THEN "Product not found"
    ELSE "none"

\* The stock check of salesApi.create: the error it throws, or "none".
SaleError(products, data) ==
    IF data.productId \notin DOMAIN products THEN "Product not found"
    ELSE IF products[data.productId].quantity < data.quantity THEN "Insufficient stock"
    ELSE "none"

\* CreateSale that records the sale and forgets to take it from stock.
CreateSalePushOnly(data, unitPrice) ==
    LET err == SaleError(mockProducts, data) IN
    /\ lastCall' = [op |-> "salesApi.create", error |-> err]
    /\ IF err = "none"
       THEN /\ mockSales' = Append(mockSales,
                   NewSale(mockProducts[data.productId], data, unitPrice, nextSaleId))
            /\ nextSaleId' = nextSaleId + 1
            /\ UNCHANGED mockProducts
       ELSE UNCHANGED <<mockProducts, mockSales, nextSaleId>>
    /\ UNCHANGED <<mockOrders, deducted>>

\* salesApi.create(data) with the unit price the revision uses.
CreateSale(data, unitPrice) ==
    LET err == SaleError(mockProducts, data) IN
    /\ lastCall' = [op |-> "salesApi.create", error |-> err]
    /\ IF err = "none"
       THEN /\ mockProducts' = [mockProducts EXCEPT
                                  ![data.productId].quantity = @ - data.quantity]
            /\ mockSales' = Append(mockSales,
                   NewSale(mockProducts[data.productId], data, unitPrice, nextSaleId))
            /\ nextSaleId' = nextSaleId + 1
       ELSE UNCHANGED <<mockProducts, mockSales, nextSaleId>>
    /\ UNCHANGED <<mockOrders, deducted>>

SaleInputs ==
    [productId : ProductIds \cup {MissingProductId},
     quantity : 1..MaxSaleQty,
     paymentMethod : PaymentMethod]

\* The ledger is cut off at MaxSales new sales; a call that throws is
\* always possible.
LedgerOpen(data) ==
    \/ Len(mockSales) < Len(FixtureSales) + MaxSales
    \/ SaleError(mockProducts, data) # "none"

\* lib/api.ts: the unit price is the caller's.
SalesCreate(data, unitPrice) ==
    /\ LedgerOpen(data)
    /\ CreateSale(data, unitPrice)

\* first revision: the unit price is the product's selling price.
SalesCreateFirst(data) ==
    /\ LedgerOpen(data)
    /\ CreateSale(data, IF data.productId \in DOMAIN mockProducts
                        THEN mockProducts[data.productId].sellingPrice ELSE 0)

---------------------------------------------------------------------------
(* ordersApi.updateStatus on the mock store.                               *)

RECURSIVE DeductItemsSkipShort(_, _)
\* DeductItems that passes over an item whose product is short instead of
\* throwing.
DeductItemsSkipShort(products, items) ==
    IF items = << >> THEN [products |-> products, error |-> "none"]
    ELSE LET item == Head(items) IN
         IF item.productId \in DOMAIN products
              /\ products[item.productId].quantity >= item.quantity
         THEN DeductItemsSkipShort(
                  [products EXCEPT ![item.productId].quantity = @ - item.quantity],
                  Tail(items))
         ELSE DeductItemsSkipShort(products, Tail(items))

RECURSIVE DeductItems(_, _)
\* The loop over order.items: stock is taken item by item, and the first
\* item whose product is short throws, leaving earlier items taken.
DeductItems(products, items) ==
    IF items = << >> THEN [products |-> products, error |-> "none"]
    ELSE LET item == Head(items) IN
         IF item.productId \in DOMAIN products
         THEN IF products[item.productId].quantity < item.quantity
              THEN [products |-> products, error |-> "Insufficient stock"]
              ELSE DeductItems([products EXCEPT ![item.productId].quantity = @ - item.quantity],
                               Tail(items))
         ELSE DeductItems(products, Tail(items))

\* DeductsInventory with the stock taken on completion instead of payment.
DeductsInventoryOnCompleted(order, status) ==
    status = "completed" /\ order.status = "pending"

\* The condition under which updateStatus takes the items from stock.
DeductsInventory(order, status) == status = "paid" /\ order.status = "pending"

OrdersUpdateStatus(id, status) ==
    IF id \notin DOMAIN mockOrders
    THEN /\ lastCall' = [op |-> "ordersApi.updateStatus", error |-> "Order not found"]
         /\ UNCHANGED <<mockProducts, mockSales, nextSaleId, mockOrders, deducted>>
    ELSE LET order == mockOrders[id]
             r == IF DeductsInventory(order, status)
                  THEN DeductItems(mockProducts, order.items)
                  ELSE [products |-> mockProducts, error |-> "none"]
         IN /\ mockProducts' = r.products
            /\ lastCall' = [op |-> "ordersApi.updateStatus", error |-> r.error]
            /\ IF r.error = "none"
               THEN /\ mockOrders' = [mockOrders EXCEPT ![id].status = status]
                    /\ deducted' = IF DeductsInventory(order, status)
                                   THEN [deducted EXCEPT ![id] = @ + 1] ELSE deducted
               ELSE UNCHANGED <<mockOrders, deducted>>
            /\ UNCHANGED <<mockSales, nextSaleId>>

---------------------------------------------------------------------------
(* The store after construction.  The fixture's stock levels (20, 8, 10)   *)
(* are brought down by salesApi.create to any lower level; the model       *)
(* starts at the levels of InitialStock.                                   *)

InitStore ==
    /\ \E q \in InitialStock :
           mockProducts = [p \in ProductIds |-> [FixtureProduct(p) EXCEPT !.quantity = q[p]]]
    /\ mockSales = FixtureSales
    /\ nextSaleId = Len(FixtureSales) + 1
    /\ mockOrders = [o \in OrderIds |-> FixtureOrder(o)]
    /\ lastCall = NoCall
    /\ deducted = [o \in OrderIds |-> 0]

\* The Orders screen before it is mounted.
ScreenUnmounted ==
    /\ revision = "none"
    /\ allOrders = [o \in OrderIds |-> "absent"]
    /\ loading = TRUE
    /\ selectedOrder = [id |-> "-", status |-> "-"]
    /\ cancelDialogOpen = FALSE
    /\ updating = FALSE
    /\ inflight = EmptyBag

\* A string value, and null.
Str(s) == [isNull |-> FALSE, str |-> s]
Null == [isNull |-> TRUE, str |-> ""]

\* JavaScript truthiness of a string | null value.
Truthy(v) == ~v.isNull /\ v.str # ""

NoRequest == [op |-> "none", status |-> 0]

\* Nobody is signed in and no request was made.
SignedOut ==
    /\ authToken = Null
    /\ storedToken = Null
    /\ location = "/login"
    /\ lastRequest = NoRequest

\* A call that has not returned.
NotReturned == [kind |-> "none"]

Returned == result # NotReturned

\* No pure function was called yet.
NothingCalled ==
    /\ call = [fn |-> "none"]
    /\ result = NotReturned

\* let nextProductId = 11; the calls are made on the day of the last mock sales.
InventoryIdle ==
    /\ nextProductId = 11
    /\ today = 6

\* selectedProduct === null
NoProduct == [id |-> "-", quantity |-> 0]

NoSaleRequest == [productId |-> "-", quantity |-> 0, paymentMethod |-> "cash"]

\* The Sales screen's useState initial values.
SalesState ==
    /\ productList = << >>
    /\ salesLoading = TRUE
    /\ selectedProduct = NoProduct
    /\ quantity = 1
    /\ paymentMethod = "cash"
    /\ submitting = FALSE
    /\ saleSuccess = FALSE
    /\ saleRequest = NoSaleRequest
    /\ resetTimer = FALSE

\* The Sales screen before it is mounted.
SalesUnmounted == SalesState /\ productLoads = 0

\* params = {} : no startDate, endDate, date or today
NoParams == [startDate |-> "", endDate |-> "", date |-> "", today |-> FALSE]

\* The latest Orders screen's useState initial values for its list and
\* filters; the first loadAllOrders call is made with them.
FiltersUnset ==
    /\ orders = [o \in OrderIds |-> "absent"]
    /\ search = << >>
    /\ statusFilter = "all"
    /\ startDate = ""
    /\ endDate = ""
    /\ specificDate = ""
    /\ todayFilter = FALSE
    /\ showDateFilters = FALSE
    /\ lastParams = NoParams

NoFormRequest == [op |-> "none", id |-> "-", quantity |-> 0]

\* The useState initial values of the Login screen and of the Inventory
\* screen's list and product form.
FormsState ==
    /\ loginLoading = FALSE
    /\ loginRequest = "none"
    /\ inventoryList = {}
    /\ inventoryLoading = TRUE
    /\ dialogOpen = FALSE
    /\ editingProduct = "-"
    /\ formSubmitting = FALSE
    /\ formRequest = NoFormRequest

\* Neither the Login screen nor the Inventory screen is mounted.
FormsUnmounted == FormsState /\ route = "none" /\ inventoryLoads = 0

RestIdle == InventoryIdle /\ SalesUnmounted /\ FiltersUnset /\ FormsUnmounted

Init == InitStore /\ ScreenUnmounted /\ SignedOut /\ NothingCalled /\ RestIdle

\* The unit prices a caller passes: the selling price, or a price at a loss.
UnitPriceInputs == {LossPrice} \cup {FixtureProduct(p).sellingPrice : p \in ProductIds}

ApiSalesCreate ==
    \E data \in SaleInputs :
        \/ \E unitPrice \in {LossPrice} \cup
                 (IF data.productId \in DOMAIN mockProducts
                  THEN {mockProducts[data.productId].sellingPrice} ELSE {}) :
               SalesCreate(data, unitPrice) /\ UNCHANGED <<screenVars, authVars, pureVars, restVars>>
        \/ SalesCreateFirst(data) /\ UNCHANGED <<screenVars, authVars, pureVars, restVars>>

ApiUpdateStatus ==
    \E id \in OrderIds \cup {MissingOrderId}, status \in OrderStatus :
        OrdersUpdateStatus(id, status) /\ UNCHANGED <<screenVars, authVars, pureVars, restVars>>

\* Where only stock matters, sales are paid in cash at the product's
\* selling price.
ApiStockSale ==
    \E data \in {d \in SaleInputs : d.paymentMethod = "cash"} :
        /\ SalesCreate(data, IF data.productId \in DOMAIN mockProducts
                             THEN mockProducts[data.productId].sellingPrice ELSE 0)
        /\ UNCHANGED <<screenVars, authVars, pureVars, restVars>>

\* The store under salesApi.create and ordersApi.updateStatus calls.
Next == ApiStockSale \/ ApiUpdateStatus

Spec == Init /\ [][Next]_vars

\* The store under salesApi.create calls alone.
NextSales == ApiSalesCreate

SpecSales == Init /\ [][NextSales]_vars

\* The store under ordersApi.updateStatus calls alone.
NextOrders == ApiUpdateStatus

SpecOrders == Init /\ [][NextOrders]_vars

---------------------------------------------------------------------------
(* The Orders screen.  Three revisions: pages/Orders.tsx (with paid, no    *)
(* cancel), the revision with paid and cancel, and the latest one in       *)
(* which pending goes straight to completed.  A request is first "sent",   *)
(* then "answered" by the store, then delivered to the handler's           *)
(* continuation; requests are answered and delivered in any order.         *)

Revisions == {"OrdersPaid", "OrdersPaidCancel", "OrdersLatest"}

NoOrder == [id |-> "-", status |-> "-"]
NoOrders == [o \in OrderIds |-> "absent"]

\* A request as the screen sends it.  from is the status the dialog showed
\* when the request was made.
Request(handler, order, status, from) ==
    [handler |-> handler, order |-> order, status |-> status, from |-> from,
     phase |-> "sent", ok |-> FALSE, orders |-> NoOrders, updated |-> "-"]

LoadRequest == Request("loadOrders", "-", "-", "-")

\* CancelOffered with 'Cancel Order' shown on paid orders too.
CancelOfferedOnPaid(rev, status) ==
    rev \in {"OrdersPaidCancel", "OrdersLatest"} /\ status \in {"pending", "paid"}

\* The detail dialog shows 'Cancel Order'.
CancelOffered(rev, status) ==
    rev \in {"OrdersPaidCancel", "OrdersLatest"} /\ status = "pending"

\* The statuses the detail dialog's 'Mark as ...' buttons ask for.
OfferedStatus(rev, status) ==
    IF status = "pending"
    THEN (IF rev = "OrdersLatest" THEN {"completed"} ELSE {"paid"})
    ELSE IF status = "paid" /\ rev # "OrdersLatest" THEN {"completed"}
    ELSE {}

\* loadOrders / loadAllOrders up to its await; only the latest revision
\* raises loading again.
LoadAllOrders ==
    /\ loading' = (IF revision = "OrdersLatest" THEN TRUE ELSE loading)
    /\ inflight' = inflight (+) SetToBag({LoadRequest})

\* The Refresh button of the latest revision; it carries no disabled
\* attribute.  The open detail dialog is modal and covers it.
Refresh ==
    /\ revision = "OrdersLatest"
    /\ selectedOrder = NoOrder /\ ~cancelDialogOpen
    /\ BagCardinality(inflight) < MaxInFlight
    /\ LoadAllOrders
    /\ UNCHANGED <<revision, allOrders, selectedOrder, cancelDialogOpen, updating>>
    /\ UNCHANGED storeVars

\* A click on an order of the list, which is shown once loading is over.
SelectOrder(o) ==
    /\ ~loading /\ allOrders[o] # "absent"
    /\ selectedOrder = NoOrder /\ ~cancelDialogOpen
    /\ selectedOrder' = [id |-> o, status |-> allOrders[o]]
    /\ UNCHANGED <<revision, allOrders, loading, cancelDialogOpen, updating, inflight>>
    /\ UNCHANGED storeVars

\* Dialog onOpenChange: the detail dialog is dismissed.
CloseDialog ==
    /\ selectedOrder # NoOrder /\ ~cancelDialogOpen
    /\ selectedOrder' = NoOrder
    /\ UNCHANGED <<revision, allOrders, loading, cancelDialogOpen, updating, inflight>>
    /\ UNCHANGED storeVars

\* handleUpdateStatus up to its await, from a 'Mark as ...' button.
HandleUpdateStatus(status) ==
    /\ selectedOrder # NoOrder /\ ~cancelDialogOpen
    /\ ~updating
    /\ status \in OfferedStatus(revision, selectedOrder.status)
    /\ updating' = TRUE
    /\ inflight' = inflight (+) SetToBag({Request("handleUpdateStatus",
                        selectedOrder.id, status, selectedOrder.status)})
    /\ UNCHANGED <<revision, allOrders, loading, selectedOrder, cancelDialogOpen>>
    /\ UNCHANGED storeVars

\* The 'Cancel Order' button opens the confirmation.
OpenCancelDialog ==
    /\ selectedOrder # NoOrder /\ ~cancelDialogOpen
    /\ ~updating
    /\ CancelOffered(revision, selectedOrder.status)
    /\ cancelDialogOpen' = TRUE
    /\ UNCHANGED <<revision, allOrders, loading, selectedOrder, updating, inflight>>
    /\ UNCHANGED storeVars

\* AlertDialog onOpenChange: the confirmation is dismissed.
KeepOrder ==
    /\ cancelDialogOpen
    /\ cancelDialogOpen' = FALSE
    /\ UNCHANGED <<revision, allOrders, loading, selectedOrder, updating, inflight>>
    /\ UNCHANGED storeVars

\* handleCancelOrder up to its await, from 'Yes, Cancel Order'.  Whether
\* the confirmation closes on the click is the dialog library's business:
\* both outcomes are kept.
HandleCancelOrder ==
    /\ cancelDialogOpen /\ ~updating
    /\ cancelDialogOpen' \in BOOLEAN
    /\ IF selectedOrder = NoOrder
       THEN UNCHANGED <<updating, inflight>>
       ELSE /\ updating' = TRUE
            /\ inflight' = inflight (+) SetToBag({Request("handleCancelOrder",
                                selectedOrder.id, "cancelled", selectedOrder.status)})
    /\ UNCHANGED <<revision, allOrders, loading, selectedOrder>>
    /\ UNCHANGED storeVars

\* The store answers a request: ordersApi.getAll reads the orders,
\* ordersApi.updateStatus runs on the store.
Answer(r) ==
    /\ r \in BagToSet(inflight) /\ r.phase = "sent"
    /\ IF r.handler = "loadOrders"
       THEN /\ inflight' = (inflight (-) SetToBag({r})) (+) SetToBag({
                   [r EXCEPT !.phase = "answered", !.ok = TRUE,
                             !.orders = [o \in OrderIds |-> mockOrders[o].status]]})
            /\ UNCHANGED storeVars
       ELSE /\ OrdersUpdateStatus(r.order, r.status)
            /\ inflight' = (inflight (-) SetToBag({r})) (+) SetToBag({
                   [r EXCEPT !.phase = "answered", !.ok = (lastCall'.error = "none"),
                             !.updated = mockOrders'[r.order].status]})
    /\ UNCHANGED <<revision, allOrders, loading, selectedOrder, cancelDialogOpen, updating>>

\* The request fails before the store sees it (apiRequest throws).
Fail(r) ==
    /\ r \in BagToSet(inflight) /\ r.phase = "sent"
    /\ inflight' = (inflight (-) SetToBag({r})) (+) SetToBag({[r EXCEPT !.phase = "answered"]})
    /\ UNCHANGED <<revision, allOrders, loading, selectedOrder, cancelDialogOpen, updating>>
    /\ UNCHANGED storeVars

\* The awaited promise settles and the handler runs to its end: the try
\* body on success, the catch (a toast) on failure, then finally.
Settle(r) ==
    /\ r \in BagToSet(inflight) /\ r.phase = "answered"
    /\ inflight' = inflight (-) SetToBag({r})
    /\ IF r.handler = "loadOrders"
       THEN /\ allOrders' = (IF r.ok THEN r.orders ELSE allOrders)
            /\ loading' = FALSE
            /\ UNCHANGED <<selectedOrder, cancelDialogOpen, updating>>
       ELSE /\ IF r.ok
               THEN /\ allOrders' = [o \in OrderIds |->
                                       IF o = r.order /\ allOrders[o] # "absent"
                                       THEN r.updated ELSE allOrders[o]]
                    /\ selectedOrder' = [id |-> r.order, status |-> r.updated]
                    /\ cancelDialogOpen' = (IF r.handler = "handleCancelOrder"
                                            THEN FALSE ELSE cancelDialogOpen)
               ELSE UNCHANGED <<allOrders, selectedOrder, cancelDialogOpen>>
            /\ updating' = FALSE
            /\ UNCHANGED loading
    /\ UNCHANGED revision
    /\ UNCHANGED storeVars

\* The screen once mounted: its effect has called loadOrders.
InitOrdersScreen ==
    /\ InitStore
    /\ revision \in Revisions
    /\ allOrders = NoOrders
    /\ loading = TRUE
    /\ selectedOrder = NoOrder
    /\ cancelDialogOpen = FALSE
    /\ updating = FALSE
    /\ inflight = SetToBag({LoadRequest})
    /\ SignedOut /\ NothingCalled /\ RestIdle

NextOrdersScreen ==
    \/ Refresh /\ UNCHANGED <<authVars, pureVars, restVars>>
    \/ \E o \in OrderIds : SelectOrder(o) /\ UNCHANGED <<authVars, pureVars, restVars>>
    \/ CloseDialog /\ UNCHANGED <<authVars, pureVars, restVars>>
    \/ \E status \in OrderStatus : HandleUpdateStatus(status) /\ UNCHANGED <<authVars, pureVars, restVars>>
    \/ OpenCancelDialog /\ UNCHANGED <<authVars, pureVars, restVars>>
    \/ KeepOrder /\ UNCHANGED <<authVars, pureVars, restVars>>
    \/ HandleCancelOrder /\ UNCHANGED <<authVars, pureVars, restVars>>
    \/ \E r \in BagToSet(inflight) : Answer(r) /\ UNCHANGED <<authVars, pureVars, restVars>>
    \/ \E r \in BagToSet(inflight) : Fail(r) /\ UNCHANGED <<authVars, pureVars, restVars>>
    \/ \E r \in BagToSet(inflight) : Settle(r) /\ UNCHANGED <<authVars, pureVars, restVars>>

SpecOrdersScreen == InitOrdersScreen /\ [][NextOrdersScreen]_vars

---------------------------------------------------------------------------
(* The auth token: the module variable authToken, its copy in local        *)
(* storage, and what the request functions do with a response status.      *)

\* The access tokens a login hands out; the first is the mock login's.
AccessTokens == {"mock-jwt-token-jossy-diva", "jwt-b"}

\* The arguments of setAuthToken: string | null.
TokenInputs == {Null, Str("")} \cup {Str(t) : t \in AccessTokens}

ResponseStatus == {200, 401, 500}

Paths == {"/", "/login"}

\* Request functions that go through apiRequest.
ApiRequestFunctions ==
    {"productsApi.getAll", "productsApi.delete", "salesApi.create",
     "ordersApi.getAll", "ordersApi.updateStatus", "dashboardApi.getStats"}

\* Request functions that call fetch themselves.
DirectFetchFunctions ==
    {"productsApi.create", "productsApi.update", "productsApi.deleteMedia",
     "salesApi.downloadReceipt", "ordersApi.downloadReceipt", "reportsApi.exportReport"}

\* The assignments of setAuthToken(token).
SetToken(token) ==
    /\ authToken' = token
    /\ storedToken' = (IF Truthy(token) THEN token ELSE Null)

\* apiRequest once the response is in: a 401 clears the token and goes to
\* /login; every other status leaves both alone.
ApiRequestResponse(status) ==
    IF status = 401
    THEN SetToken(Null) /\ location' = "/login"
    ELSE UNCHANGED <<authToken, storedToken, location>>

\* getAuthToken / authApi.isAuthenticated
IsAuthenticated == Truthy(authToken)

\* A caller of the exported setAuthToken.
SetAuthToken(token) ==
    /\ SetToken(token)
    /\ lastRequest' = [op |-> "setAuthToken", status |-> 0]
    /\ UNCHANGED location

\* authApi.login against the server: apiRequest, then setAuthToken with the
\* access token of a body that does not carry success: false.
Login(status, success, accessToken) ==
    /\ lastRequest' = [op |-> "authApi.login", status |-> status]
    /\ IF status = 200 /\ success
       THEN SetToken(Str(accessToken)) /\ UNCHANGED location
       ELSE ApiRequestResponse(status)

\* authApi.login against the mock: the fixture credentials or a throw.
LoginMock(valid) ==
    /\ lastRequest' = [op |-> "authApi.login (mock)", status |-> 0]
    /\ IF valid
       THEN SetToken(Str("mock-jwt-token-jossy-diva"))
       ELSE UNCHANGED <<authToken, storedToken>>
    /\ UNCHANGED location

\* authApi.logout
Logout ==
    /\ SetToken(Null)
    /\ lastRequest' = [op |-> "authApi.logout", status |-> 0]
    /\ UNCHANGED location

\* A request function built on apiRequest meets a response.
ApiRequest(fn, status) ==
    /\ lastRequest' = [op |-> fn, status |-> status]
    /\ ApiRequestResponse(status)

\* A request function that calls fetch itself meets a response: it throws
\* when the response is not ok and touches neither token nor location.
DirectFetch(fn, status) ==
    /\ lastRequest' = [op |-> fn, status |-> status]
    /\ UNCHANGED <<authToken, storedToken, location>>

\* The user moves between the login page and the rest of the console.
Navigate(path) ==
    /\ location' = path
    /\ lastRequest' = [op |-> "navigate", status |-> 0]
    /\ UNCHANGED <<authToken, storedToken>>

\* The module is loaded: authToken is read from local storage, which a
\* previous session left empty or holding a token.
InitAuth ==
    /\ InitStore /\ ScreenUnmounted
    /\ storedToken \in {Null} \cup {Str(t) : t \in AccessTokens}
    /\ authToken = storedToken
    /\ location \in Paths
    /\ lastRequest = NoRequest
    /\ NothingCalled /\ RestIdle

NextAuth ==
    \/ \E token \in TokenInputs :
           SetAuthToken(token) /\ UNCHANGED <<storeVars, screenVars, pureVars, restVars>>
    \/ \E status \in ResponseStatus, success \in BOOLEAN, accessToken \in AccessTokens :
           Login(status, success, accessToken) /\ UNCHANGED <<storeVars, screenVars, pureVars, restVars>>
    \/ \E valid \in BOOLEAN :
           LoginMock(valid) /\ UNCHANGED <<storeVars, screenVars, pureVars, restVars>>
    \/ Logout /\ UNCHANGED <<storeVars, screenVars, pureVars, restVars>>
    \/ \E fn \in ApiRequestFunctions, status \in ResponseStatus :
           ApiRequest(fn, status) /\ UNCHANGED <<storeVars, screenVars, pureVars, restVars>>
    \/ \E fn \in DirectFetchFunctions, status \in ResponseStatus :
           DirectFetch(fn, status) /\ UNCHANGED <<storeVars, screenVars, pureVars, restVars>>
    \/ \E path \in Paths :
           Navigate(path) /\ UNCHANGED <<storeVars, screenVars, pureVars, restVars>>

SpecAuth == InitAuth /\ [][NextAuth]_vars

\* C8 (as stated): whichever request function met a 401 response, the
\* token is cleared in memory and in local storage and the page is /login.
C8_UnauthorizedClearsToken ==
    lastRequest.status = 401
        => authToken = Null /\ storedToken = Null /\ location = "/login"

\* C9 (as stated): the in-memory token and the stored token agree (both
\* absent, or both the same string), and isAuthenticated() is true exactly
\* when a token is stored.
C9_TokenMirrorsStorage ==
    /\ authToken = storedToken
    /\ IsAuthenticated <=> storedToken # Null

---------------------------------------------------------------------------
(* Order lifecycle on the store.                                           *)

TerminalStatus == {"completed", "cancelled"}

\* Some item of the order asks for more than its product has in stock.
ShortOfStock(order) ==
    \E i \in 1..Len(order.items) :
        /\ order.items[i].productId \in DOMAIN mockProducts
        /\ mockProducts[order.items[i].productId].quantity < order.items[i].quantity

\* The order has one item, of quantity 5, and its product has 5 in stock.
FiveOfFive(order) ==
    /\ Len(order.items) = 1
    /\ order.items[1].quantity = 5
    /\ order.items[1].productId \in DOMAIN mockProducts
    /\ mockProducts[order.items[1].productId].quantity = 5

\* C1 (as stated): once an order is completed or cancelled, no
\* ordersApi.updateStatus call changes its status.
C1_TerminalStatusNeverChanges ==
    [][\A o \in OrderIds :
          mockOrders[o].status \in TerminalStatus
              => mockOrders'[o].status = mockOrders[o].status]_vars

\* The lifecycle steps of a revision, as (current status, requested status).
AllowedSteps(rev) ==
    IF rev = "OrdersLatest"
    THEN {<<"pending", "completed">>, <<"pending", "cancelled">>}
    ELSE {<<"pending", "paid">>, <<"paid", "completed">>, <<"pending", "cancelled">>}

C10_OneRequestInFlight == BagCardinality(inflight) <= 1

\* C3: ordersApi.updateStatus moving a pending order into the state that
\* takes its items from stock ('paid' on the mock store), while some item
\* asks for more than its product has, ends with an 'Insufficient stock'
\* error and leaves the order pending.
C3_InsufficientStockKeepsPending ==
    [][\A id \in OrderIds :
          ( /\ OrdersUpdateStatus(id, "paid")
            /\ mockOrders[id].status = "pending"
            /\ ShortOfStock(mockOrders[id]) )
          => /\ lastCall'.error = "Insufficient stock"
             /\ mockOrders'[id].status = "pending"
             /\ mockOrders' = mockOrders]_vars

\* C3 witness: a fulfilment was refused for lack of stock and the order is
\* still pending and still short.
C3_Witness ==
    /\ lastCall = [op |-> "ordersApi.updateStatus", error |-> "Insufficient stock"]
    /\ \E id \in OrderIds :
           mockOrders[id].status = "pending" /\ ShortOfStock(mockOrders[id])

\* C4 (as stated, its particular case): pending -> completed on an order
\* with one item of quantity 5 whose product has 5 in stock succeeds and
\* leaves 0 in stock.
C4_CompletedTakesFiveOfFive ==
    [][\A id \in OrderIds :
          ( /\ OrdersUpdateStatus(id, "completed")
            /\ mockOrders[id].status = "pending"
            /\ FiveOfFive(mockOrders[id]) )
          => /\ lastCall'.error = "none"
             /\ mockProducts'[mockOrders[id].items[1].productId].quantity = 0]_vars

\* C4 (amended): a pending -> paid call that succeeds lowers the stock of
\* every product by the total quantity the order's items ask of it and
\* changes nothing else of the product; on an order with one item of
\* quantity 5 whose product has 5 in stock it succeeds and leaves 0; and a
\* pending -> completed call takes nothing from stock.
C4_PaidTakesItemsFromStock ==
    [][\A id \in OrderIds :
          /\ ( /\ OrdersUpdateStatus(id, "paid")
               /\ mockOrders[id].status = "pending"
               /\ lastCall'.error = "none" )
             => /\ mockOrders'[id].status = "paid"
                /\ \A p \in DOMAIN mockProducts :
                       mockProducts'[p] =
                           [mockProducts[p] EXCEPT
                              !.quantity = @ - ItemsDemand(mockOrders[id].items, p)]
          /\ ( /\ OrdersUpdateStatus(id, "paid")
               /\ mockOrders[id].status = "pending"
               /\ FiveOfFive(mockOrders[id]) )
             => /\ lastCall'.error = "none"
                /\ mockProducts'[mockOrders[id].items[1].productId].quantity = 0
          /\ ( /\ OrdersUpdateStatus(id, "completed")
               /\ mockOrders[id].status = "pending" )
             => mockProducts' = mockProducts]_vars

\* C4 witness: the single-item order of quantity 5 was paid once out of a
\* stock of 5, which is now 0.
C4_Witness ==
    /\ lastCall = [op |-> "ordersApi.updateStatus", error |-> "none"]
    /\ mockOrders["o4"].status = "paid"
    /\ deducted["o4"] = 1
    /\ mockProducts["4"].quantity = 0

---------------------------------------------------------------------------
(* Sales on the store.                                                     *)

\* C5: salesApi.create either lowers the product's stock by exactly the
\* sale quantity and appends exactly one sale record, or throws ('Product
\* not found', 'Insufficient stock') and changes neither stock nor sales.
C5_SaleIsAtomic ==
    [][\A data \in SaleInputs, unitPrice \in UnitPriceInputs \cup {0} :
          CreateSale(data, unitPrice)
          => IF /\ data.productId \in DOMAIN mockProducts
                /\ mockProducts[data.productId].quantity >= data.quantity
             THEN /\ lastCall'.error = "none"
                  /\ mockProducts' = [mockProducts EXCEPT
                         ![data.productId].quantity = @ - data.quantity]
                  /\ Len(mockSales') = Len(mockSales) + 1
                  /\ SubSeq(mockSales', 1, Len(mockSales)) = mockSales
                  /\ mockSales'[Len(mockSales')].productId = data.productId
                  /\ mockSales'[Len(mockSales')].quantity = data.quantity
             ELSE /\ lastCall'.error =
                         (IF data.productId \in DOMAIN mockProducts
                          THEN "Insufficient stock" ELSE "Product not found")
                  /\ mockProducts' = mockProducts
                  /\ mockSales' = mockSales]_vars

\* C5 witness: one sale was recorded and a later call was refused for lack
\* of stock.
C5_Witness ==
    /\ Len(mockSales) = Len(FixtureSales) + 1
    /\ lastCall = [op |-> "salesApi.create", error |-> "Insufficient stock"]

\* C6: every sale record has totalAmount = quantity * unitPrice and
\* profit = quantity * (unitPrice - costPrice), and a recorded sale carries
\* its product's cost price.
C6_SaleAmounts ==
    \A i \in 1..Len(mockSales) :
        LET sale == mockSales[i] IN
        /\ sale.totalAmount = sale.quantity * sale.unitPrice
        /\ sale.profit = sale.quantity * (sale.unitPrice - sale.costPrice)
        /\ i > Len(FixtureSales) => sale.costPrice = mockProducts[sale.productId].costPrice

\* C6 witness: a sale of two units below cost was recorded, at a loss.
C6_Witness ==
    \E i \in Len(FixtureSales) + 1..Len(mockSales) :
        /\ mockSales[i].quantity = 2
        /\ mockSales[i].unitPrice = LossPrice
        /\ mockSales[i].profit < 0

\* C7: the stock of every product is a non-negative integer.
C7_StockNeverNegative ==
    \A p \in DOMAIN mockProducts : mockProducts[p].quantity \in Nat

\* C7 witness: a product sold through salesApi.create and taken by an order
\* has run down to exactly 0.
C7_Witness ==
    \E p \in DOMAIN mockProducts, o \in OrderIds :
        /\ mockProducts[p].quantity = 0
        /\ deducted[o] >= 1
        /\ ItemsDemand(mockOrders[o].items, p) > 0
        /\ \E i \in Len(FixtureSales) + 1..Len(mockSales) : mockSales[i].productId = p

-----------------------------------------------------------------------------
\* Order status mapping between the screens and the backend.
\* A JavaScript string is a sequence of one-character strings, so that changing
\* its case is computed character by character.

LowerLetters == <<"a", "b", "c", "d", "e", "f", "g", "h", "i", "j", "k", "l", "m",
                  "n", "o", "p", "q", "r", "s", "t", "u", "v", "w", "x", "y", "z">>

UpperLetters == <<"A", "B", "C", "D", "E", "F", "G", "H", "I", "J", "K", "L", "M",
                  "N", "O", "P", "Q", "R", "S", "T", "U", "V", "W", "X", "Y", "Z">>

UpperChar(c) ==
    IF \E i \in 1..Len(LowerLetters) : LowerLetters[i] = c
    THEN UpperLetters[CHOOSE i \in 1..Len(LowerLetters) : LowerLetters[i] = c]
    ELSE c

LowerChar(c) ==
    IF \E i \in 1..Len(UpperLetters) : UpperLetters[i] = c
    THEN LowerLetters[CHOOSE i \in 1..Len(UpperLetters) : UpperLetters[i] = c]
    ELSE c

ToUpperCaseKeepsCase(chars) == chars

\* String.prototype.toUpperCase
ToUpperCase(chars) == [i \in 1..Len(chars) |-> UpperChar(chars[i])]

\* String.prototype.toLowerCase
ToLowerCase(chars) == [i \in 1..Len(chars) |-> LowerChar(chars[i])]

\* The status field of a backend order: absent, null or a string.
Undefined == [kind |-> "undefined", chars |-> <<>>]

JsNull == [kind |-> "null", chars |-> <<>>]

JsString(chars) == [kind |-> "string", chars |-> chars]

PENDING_PAYMENT == <<"P", "E", "N", "D", "I", "N", "G", "_", "P", "A", "Y", "M", "E", "N", "T">>

PAID == <<"P", "A", "I", "D">>

COMPLETED == <<"C", "O", "M", "P", "L", "E", "T", "E", "D">>

CANCELLED == <<"C", "A", "N", "C", "E", "L", "L", "E", "D">>

\* The text of a screen status.
UiChars(status) ==
    CASE status = "pending"   -> <<"p", "e", "n", "d", "i", "n", "g">>
      [] status = "paid"      -> <<"p", "a", "i", "d">>
      [] status = "completed" -> <<"c", "o", "m", "p", "l", "e", "t", "e", "d">>
      [] status = "cancelled" -> <<"c", "a", "n", "c", "e", "l", "l", "e", "d">>

ToBackendCompleteForCompleted(status) ==
    CASE status = "pending"   -> PENDING_PAYMENT
      [] status = "paid"      -> PAID
      [] status = "completed" -> <<"C", "O", "M", "P", "L", "E", "T", "E">>
      [] status = "cancelled" -> CANCELLED
      [] OTHER                -> <<>>

\* ordersApi.updateStatus: "Map frontend status to backend status"
ToBackend(status) ==
    CASE status = "pending"   -> PENDING_PAYMENT
      [] status = "paid"      -> PAID
      [] status = "completed" -> COMPLETED
      [] status = "cancelled" -> CANCELLED
      [] OTHER                -> <<>>

\* ordersApi.getAll / updateStatus / getByOrderNumber:
\* order.status?.toUpperCase() || '' and the chain of comparisons that follows
ToUi(raw) ==
    LET responseStatus == IF raw.kind = "string" THEN ToUpperCase(raw.chars) ELSE <<>>
    IN  IF responseStatus = PENDING_PAYMENT THEN "pending"
        ELSE IF responseStatus = PAID THEN "paid"
        ELSE IF responseStatus = COMPLETED THEN "completed"
        ELSE IF responseStatus = CANCELLED THEN "cancelled"
        ELSE "pending"

\* Orders screen: status?.toLowerCase() || 'pending'
GetNormalizedStatus(raw) ==
    LET lowered == IF raw.kind = "string" THEN ToLowerCase(raw.chars) ELSE <<>>
    IN  IF lowered # <<>> THEN lowered ELSE UiChars("pending")

\* Raw statuses a backend may send: the four known names, names it does not
\* know, each in upper case, lower case and capitalised, and no status at all.
StatusWords == {PENDING_PAYMENT, PAID, COMPLETED, CANCELLED,
                <<"B", "O", "G", "U", "S">>, <<"P", "E", "N", "D", "I", "N", "G">>, <<"S", "H", "I", "P", "P", "E", "D">>, <<"P", "A", "I", "D", " ">>}

Capitalised(chars) ==
    [i \in 1..Len(chars) |-> IF i = 1 THEN UpperChar(chars[i]) ELSE LowerChar(chars[i])]

RawStatuses ==
    {Undefined, JsNull, JsString(<<>>)}
        \cup {JsString(w) : w \in StatusWords}
        \cup {JsString(ToLowerCase(w)) : w \in StatusWords}
        \cup {JsString(Capitalised(w)) : w \in StatusWords}

\* updateStatus maps the screen status, sends it, and maps the status of the
\* order the backend sends back; here the backend echoes what it was sent.
StatusRoundTrip ==
    /\ call.fn = "updateStatus" /\ ~Returned
    /\ result' = [kind |-> "status",
                  sent |-> ToBackend(call.arg),
                  ui |-> ToUi(JsString(ToBackend(call.arg)))]
    /\ UNCHANGED call

\* getAll maps each order's raw status; the screen then normalises the mapped
\* status before it picks the badge.
MapRawStatus ==
    /\ call.fn = "toUi" /\ ~Returned
    /\ result' = [kind |-> "status",
                  ui |-> ToUi(call.arg),
                  shown |-> GetNormalizedStatus(JsString(UiChars(ToUi(call.arg))))]
    /\ UNCHANGED call

NormalizeStatus ==
    /\ call.fn = "getNormalizedStatus" /\ ~Returned
    /\ result' = [kind |-> "chars", chars |-> GetNormalizedStatus(call.arg)]
    /\ UNCHANGED call

StatusCalls ==
    {[fn |-> "updateStatus", arg |-> status] : status \in OrderStatus}
        \cup {[fn |-> "toUi", arg |-> raw] : raw \in RawStatuses}
        \cup {[fn |-> "getNormalizedStatus", arg |-> raw] : raw \in RawStatuses}

-----------------------------------------------------------------------------
\* Discounted (website) price of a product.

MaxPrice == 30

MaxFixedValue == 35

MaxTime == 2

\* selling price of the mock product that carries the 10% discount
AnkaraSellingPrice == 15000

\* selling price and value of the mock product that carries the fixed discount
SheaSellingPrice == 4500

SheaDiscountValue == 500

\* the form's upper limit of a percentage value
MaxPercentage == 100

SellingPrices == 0..MaxPrice \cup {SheaSellingPrice, AnkaraSellingPrice}

PercentageValues == 0..MaxPercentage

FixedValues == 0..MaxFixedValue \cup {SheaDiscountValue}

\* A number field that may be null or undefined.
NoNumber == [isNull |-> TRUE, n |-> 0]

Num(n) == [isNull |-> FALSE, n |-> n]

\* Exact rounding to the nearest integer, a half going up, of p * (100 - v) / 100.
RoundHalfUp(p, v) == (2 * p * (100 - v) + 100) \div 200

\* The (sellingPrice, value) pairs of the input sets for which the double
\* 1 - value / 100 is below its exact value by enough that the double product
\* with sellingPrice, exactly a half in the reals, is below the half.
TieFallsShort == {<<5, 90>>, <<15, 90>>, <<25, 34>>, <<25, 78>>, <<25, 90>>,
                  <<30, 55>>, <<35, 90>>}

\* Math.round(sellingPrice * (1 - value / 100)) in double arithmetic
PercentagePrice(sellingPrice, value) ==
    IF <<sellingPrice, value>> \in TieFallsShort
    THEN RoundHalfUp(sellingPrice, value) - 1
    ELSE RoundHalfUp(sellingPrice, value)

\* product.discount of the first revision: absent, or a type and a value
NoDiscount == [present |-> FALSE, type |-> "none", value |-> 0]

Discount(type, value) == [present |-> TRUE, type |-> type, value |-> value]

Discounts ==
    {NoDiscount}
        \cup {Discount("percentage", v) : v \in PercentageValues}
        \cup {Discount("fixed", v) : v \in FixedValues}

GetDiscountedPriceKeepsPrice(product) ==
    IF ~product.discount.present THEN Num(product.sellingPrice)
    ELSE IF product.discount.type = "percentage"
         THEN Num(PercentagePrice(product.sellingPrice, product.discount.value))
         ELSE Num(product.sellingPrice - product.discount.value)

\* getDiscountedPrice (product.discount)
GetDiscountedPrice(product) ==
    IF ~product.discount.present THEN NoNumber
    ELSE IF product.discount.type = "percentage"
         THEN Num(PercentagePrice(product.sellingPrice, product.discount.value))
         ELSE Num(product.sellingPrice - product.discount.value)

\* A falsy number field: null, undefined or 0.
Falsy(field) == field.isNull \/ field.n = 0

\* transformProduct: discountType: p.discountType || null, discountValue:
\* p.discountValue || null, discountStartAt / discountEndAt likewise
TransformProduct(p) ==
    [sellingPrice    |-> p.sellingPrice,
     discountType    |-> p.discountType,
     discountValue   |-> IF Falsy(p.discountValue) THEN NoNumber ELSE p.discountValue,
     discountStartAt |-> p.discountStartAt,
     discountEndAt   |-> p.discountEndAt]

GetDiscountedPriceFlatAllPercentage(product) ==
    IF Falsy(product.discountValue) THEN NoNumber
    ELSE Num(PercentagePrice(product.sellingPrice, product.discountValue.n))

\* getDiscountedPrice (flat discount fields)
GetDiscountedPriceFlat(product) ==
    IF Falsy(product.discountValue) THEN NoNumber
    ELSE IF product.discountType = "PERCENTAGE"
         THEN Num(PercentagePrice(product.sellingPrice, product.discountValue.n))
         ELSE Num(product.sellingPrice - product.discountValue.n)

\* ProductFormDialog, "Website Price Preview": rendered only for a discount type,
\* a value above 0 and a selling price above 0
WebsitePricePreview(form) ==
    IF /\ form.discountType # "null"
       /\ ~Falsy(form.discountValue)
       /\ form.discountValue.n > 0
       /\ form.sellingPrice > 0
    THEN IF form.discountType = "PERCENTAGE"
         THEN Num(PercentagePrice(form.sellingPrice, form.discountValue.n))
         ELSE Num(form.sellingPrice - form.discountValue.n)
    ELSE NoNumber

\* The discount fields a backend product may carry.
FlatDiscounts ==
    {<<"null", NoNumber>>}
        \cup {<<"PERCENTAGE", Num(v)>> : v \in PercentageValues}
        \cup {<<"FIXED", Num(v)>> : v \in FixedValues}

FlatProduct(sellingPrice, discount, startAt, endAt) ==
    [sellingPrice    |-> sellingPrice,
     discountType    |-> discount[1],
     discountValue   |-> discount[2],
     discountStartAt |-> startAt,
     discountEndAt   |-> endAt]

Instants == {NoNumber} \cup {Num(t) : t \in 1..MaxTime}

\* the two mock discounts, with a window
WindowedProducts ==
    {FlatProduct(AnkaraSellingPrice, <<"PERCENTAGE", Num(10)>>, s, e) : s, e \in Instants}
        \cup {FlatProduct(SheaSellingPrice, <<"FIXED", Num(SheaDiscountValue)>>, s, e) :
                  s, e \in Instants}

ResolvePrice ==
    /\ call.fn = "getDiscountedPrice" /\ ~Returned
    /\ result' = GetDiscountedPrice(call.arg)
    /\ UNCHANGED call

\* The product came from the backend through transformProduct; now is the
\* time of the call.
ResolvePriceFlat ==
    /\ call.fn = "getDiscountedPriceFlat" /\ ~Returned
    /\ result' = GetDiscountedPriceFlat(call.arg)
    /\ UNCHANGED call

PreviewWebsitePrice ==
    /\ call.fn = "websitePricePreview" /\ ~Returned
    /\ result' = WebsitePricePreview(call.arg)
    /\ UNCHANGED call

FlatCall(p, now) ==
    [fn |-> "getDiscountedPriceFlat", arg |-> TransformProduct(p), raw |-> p, now |-> now]

DiscountCalls ==
    {[fn |-> "getDiscountedPrice",
      arg |-> [sellingPrice |-> sellingPrice, discount |-> discount]] :
         sellingPrice \in SellingPrices, discount \in Discounts}
        \cup {FlatCall(FlatProduct(sellingPrice, discount, NoNumber, NoNumber), 0) :
                  sellingPrice \in SellingPrices, discount \in FlatDiscounts}
        \cup {FlatCall(p, now) : p \in WindowedProducts, now \in 0..MaxTime + 1}
        \cup {[fn |-> "websitePricePreview",
                arg |-> FlatProduct(sellingPrice, discount, NoNumber, NoNumber)] :
                  sellingPrice \in SellingPrices, discount \in FlatDiscounts}

-----------------------------------------------------------------------------
\* Report summary computed from the mock ledger, and the Reports screen.

MaxDay == 9

\* Days of February 2026 on which the mock sales were made.
FirstSaleDay == 5

SecondSaleDay == 6

\* category of each mock product
MockCategory(productId) ==
    CASE productId \in {"1", "7"}  -> "clothes"
      [] productId \in {"2", "8"}  -> "shoes"
      [] productId \in {"3", "9"}  -> "perfumes"
      [] productId = "4"           -> "creams"
      [] productId = "5"           -> "watches"
      [] productId \in {"6", "10"} -> "jewelry"

\* A sale together with the day of its createdAt.
SaleAt(sale, day) == [sale |-> sale, createdAt |-> day]

\* mockSales as the module starts: s1..s3 on the 6th, s4 and s5 on the 5th
FixtureLedger ==
    [i \in 1..Len(FixtureSales) |->
        SaleAt(FixtureSales[i], IF i <= 3 THEN SecondSaleDay ELSE FirstSaleDay)]

\* The sales the period selects: those of today, those of the last seven
\* days, or, for monthly, all of them.
FilterSales(ledger, period, now) ==
    IF period = "daily" THEN SelectSeq(ledger, LAMBDA s : s.createdAt = now)
    ELSE IF period = "weekly" THEN SelectSeq(ledger, LAMBDA s : s.createdAt >= now - 7)
    ELSE ledger

\* product?.category || 'other'
CategoryOf(sale, deleted) ==
    IF sale.productId \in deleted THEN "other" ELSE MockCategory(sale.productId)

AddToOverwrites(buckets, key, amount) ==
    [k \in DOMAIN buckets \cup {key} |-> IF k = key THEN amount ELSE buckets[k]]

\* buckets[key] = (buckets[key] || 0) + amount
AddTo(buckets, key, amount) ==
    [k \in DOMAIN buckets \cup {key} |->
        IF k = key
        THEN (IF key \in DOMAIN buckets THEN buckets[key] ELSE 0) + amount
        ELSE buckets[k]]

NoBuckets == [k \in {} |-> 0]

RECURSIVE SalesByCategory(_, _)
SalesByCategory(sales, deleted) ==
    IF sales = <<>> THEN NoBuckets
    ELSE LET last == sales[Len(sales)].sale
         IN  AddTo(SalesByCategory(SubSeq(sales, 1, Len(sales) - 1), deleted),
                   CategoryOf(last, deleted), last.totalAmount)

RECURSIVE SalesByPayment(_)
SalesByPayment(sales) ==
    IF sales = <<>> THEN NoBuckets
    ELSE LET last == sales[Len(sales)].sale
         IN  AddTo(SalesByPayment(SubSeq(sales, 1, Len(sales) - 1)),
                   last.paymentMethod, last.totalAmount)

\* filteredSales.reduce((sum, s) => sum + s.totalAmount, 0)
RECURSIVE TotalSales(_)
TotalSales(sales) ==
    IF sales = <<>> THEN 0
    ELSE TotalSales(SubSeq(sales, 1, Len(sales) - 1)) + sales[Len(sales)].sale.totalAmount

\* filteredSales.reduce((sum, s) => sum + s.profit, 0)
RECURSIVE TotalProfit(_)
TotalProfit(sales) ==
    IF sales = <<>> THEN 0
    ELSE TotalProfit(SubSeq(sales, 1, Len(sales) - 1)) + sales[Len(sales)].sale.profit

\* reportsApi.getSummary on the mock data
GetSummary(ledger, deleted, period, now) ==
    LET filteredSales == FilterSales(ledger, period, now)
    IN  [period            |-> period,
         totalSales        |-> TotalSales(filteredSales),
         totalProfit       |-> TotalProfit(filteredSales),
         totalTransactions |-> Len(filteredSales),
         salesByCategory   |-> SalesByCategory(filteredSales, deleted),
         salesByPayment    |-> SalesByPayment(filteredSales)]

Periods == {"daily", "weekly", "monthly"}

\* Sales made after the module started, at the selling price.
LaterSales ==
    {SaleAt(NewSale(FixtureProduct(data.productId), data,
                    FixtureProduct(data.productId).sellingPrice, Len(FixtureSales) + 1), day) :
        data \in [productId : ProductIds, quantity : 1..MaxSaleQty,
                  paymentMethod : PaymentMethod],
        day \in SecondSaleDay..MaxDay}

\* The ledger, the products deleted since, the period and the day of the call.
SummaryCalls ==
    {c \in {[fn |-> "getSummary", ledger |-> FixtureLedger \o later, deleted |-> deleted,
             period |-> period, now |-> now] :
                later \in {<<>>} \cup {<<s>> : s \in LaterSales},
                deleted \in {{}, {"7"}},
                period \in Periods,
                now \in SecondSaleDay..MaxDay + 7} :
        \A i \in 1..Len(c.ledger) : c.ledger[i].createdAt <= c.now}

SummaryReturns ==
    /\ call.fn = "getSummary" /\ ~Returned
    /\ result' = GetSummary(call.ledger, call.deleted, call.period, call.now)
    /\ UNCHANGED call

RendersMarginBarAlways(report) == TRUE

\* Reports: {report.revenue > 0 && ( ... Profit Margin ... )}
RendersMarginBar(report) == report.revenue > 0

\* ReportData as the backend sends it; the margin of a report without
\* revenue may be no number.
ReportDatas ==
    {[revenue |-> 0, profit |-> 0, profitMargin |-> m, transactions |-> 0] :
        m \in {NoNumber, Num(0)}}
        \cup {[revenue |-> 87000, profit |-> 41000, profitMargin |-> Num(47),
               transactions |-> 3]}

ReportCalls == {[fn |-> "Reports", arg |-> report] : report \in ReportDatas}

RenderReport ==
    /\ call.fn = "Reports" /\ ~Returned
    /\ result' = [kind |-> "render", marginBar |-> RendersMarginBar(call.arg)]
    /\ UNCHANGED call

-----------------------------------------------------------------------------
\* productsApi.update: the fields of the PUT request, and the mock store's update.

\* An optional field: undefined, or a value.
AbsentNumber == [defined |-> FALSE, v |-> 0]

AbsentString == [defined |-> FALSE, v |-> ""]

AbsentChars == [defined |-> FALSE, v |-> <<>>]

AbsentBool == [defined |-> FALSE, v |-> FALSE]

AbsentNum == [defined |-> FALSE, v |-> NoNumber]

Val(v) == [defined |-> TRUE, v |-> v]

\* String(true), String(false)
BoolString(b) == IF b THEN "true" ELSE "false"

\* The mock product 4, as the product being edited.
ExistingProduct ==
    [name             |-> "Shea Butter Cream",
     category         |-> <<"c", "r", "e", "a", "m", "s">>,
     costPrice        |-> FixtureProduct("4").costPrice,
     sellingPrice     |-> FixtureProduct("4").sellingPrice,
     quantity         |-> FixtureProduct("4").quantity,
     visibleOnWebsite |-> TRUE,
     discount         |-> Discount("fixed", SheaDiscountValue),
     discountType     |-> "FIXED",
     discountValue    |-> Num(SheaDiscountValue)]

\* The cost price typed into the form instead of the existing one.
EditedCostPrice == 2500

EditedSellingPrice == 5000

\* What the form may pass for the fields both revisions share.
SharedFormData ==
    [name             : {AbsentString, Val(ExistingProduct.name), Val("Shea Cream"), Val("")},
     category         : {AbsentChars, Val(ExistingProduct.category), Val(<<"p", "e", "r", "f", "u", "m", "e", "s">>)},
     costPrice        : {AbsentNumber, Val(ExistingProduct.costPrice), Val(EditedCostPrice)},
     sellingPrice     : {AbsentNumber, Val(ExistingProduct.sellingPrice), Val(EditedSellingPrice), Val(0)},
     quantity         : {AbsentNumber, Val(ExistingProduct.quantity), Val(0)},
     visibleOnWebsite : {AbsentBool, Val(TRUE), Val(FALSE)}]

\* Partial<ProductFormData> of the revision with a discount object
FormDatas ==
    {[shared |-> d, discount |-> discount] :
        d \in SharedFormData,
        discount \in {NoDiscount, ExistingProduct.discount, Discount("percentage", 10),
                      Discount("fixed", 0)}}

\* Partial<ProductFormData> of the latest revision, with flat discount fields
FormDatasLatest ==
    {[shared |-> d, discountType |-> discount[1], discountValue |-> discount[2],
      discountStartAt |-> startAt] :
        d \in SharedFormData,
        discount \in {<<"null", NoNumber>>, <<"FIXED", Num(SheaDiscountValue)>>,
                      <<"PERCENTAGE", Num(10)>>, <<"FIXED", Num(0)>>},
        startAt \in {AbsentNumber, Val(1)}}

\* A field appended only when it is given and differs from the existing one.
IfChanged(field, existing, absent) ==
    IF field.defined /\ field.v # existing THEN field ELSE absent

\* data.x || existing.x for a number, data.x || existing.x for a string
OrExistingNumber(field, existing) ==
    IF field.defined /\ field.v # 0 THEN field.v ELSE existing

OrExistingString(field, existing) ==
    IF field.defined /\ field.v # "" THEN field.v ELSE existing

OrExistingChars(field, existing) ==
    IF field.defined /\ field.v # <<>> THEN field.v ELSE existing

NoFields ==
    [name |-> AbsentString, category |-> AbsentChars, costPrice |-> AbsentNumber,
     sellingPrice |-> AbsentNumber, quantity |-> AbsentNumber,
     visibleOnWebsite |-> AbsentString, discountType |-> AbsentString,
     discountValue |-> AbsentNum, discountStartAt |-> AbsentNum, discountEndAt |-> AbsentNum]

\* productsApi.update, mock store: { ...mockProducts[index], ...data }
UpdateMock(data, existing) ==
    LET d == data.shared
        Spread(field, old) == IF field.defined THEN field.v ELSE old
    IN  [name             |-> Spread(d.name, existing.name),
         category         |-> Spread(d.category, existing.category),
         costPrice        |-> Spread(d.costPrice, existing.costPrice),
         sellingPrice     |-> Spread(d.sellingPrice, existing.sellingPrice),
         quantity         |-> Spread(d.quantity, existing.quantity),
         visibleOnWebsite |-> Spread(d.visibleOnWebsite, existing.visibleOnWebsite),
         discount         |-> data.discount,
         discountType     |-> existing.discountType,
         discountValue    |-> existing.discountValue]

\* productsApi.update, backend request of the revision with a discount object:
\* only the changed fields, never costPrice
UpdateRequest(data, existing) ==
    LET d == data.shared
        category == IfChanged(d.category, existing.category, AbsentChars)
        visible == IfChanged(d.visibleOnWebsite, existing.visibleOnWebsite, AbsentBool)
        discountChanged ==
            \/ data.discount.present /\ ~existing.discount.present
            \/ ~data.discount.present /\ existing.discount.present
            \/ /\ data.discount.present /\ existing.discount.present
               /\ \/ data.discount.type # existing.discount.type
                  \/ data.discount.value # existing.discount.value
        keeps == data.discount.present /\ data.discount.value > 0
    IN  [NoFields EXCEPT
            !.name             = IfChanged(d.name, existing.name, AbsentString),
            !.category         = IF category.defined THEN Val(ToUpperCase(category.v))
                                 ELSE AbsentChars,
            !.sellingPrice     = IfChanged(d.sellingPrice, existing.sellingPrice, AbsentNumber),
            !.quantity         = IfChanged(d.quantity, existing.quantity, AbsentNumber),
            !.visibleOnWebsite = IF visible.defined THEN Val(BoolString(visible.v))
                                 ELSE AbsentString,
            !.discountType     = IF ~discountChanged THEN AbsentString
                                 ELSE IF keeps
                                      THEN Val(IF data.discount.type = "percentage"
                                               THEN "PERCENTAGE" ELSE "FIXED")
                                      ELSE Val(""),
            !.discountValue    = IF ~discountChanged THEN AbsentNum
                                 ELSE IF keeps THEN Val(Num(data.discount.value))
                                      ELSE Val(NoNumber)]

\* productsApi.update, latest revision: every field is sent, costPrice when it
\* is given and differs from the existing one
UpdateRequestLatest(data, existing) ==
    LET d == data.shared
        keeps == /\ data.discountType # "null"
                 /\ ~Falsy(data.discountValue)
                 /\ data.discountValue.n > 0
        removes == ~keeps /\ existing.discountType # "null" /\ ~Falsy(existing.discountValue)
    IN  [NoFields EXCEPT
            !.name             = Val(OrExistingString(d.name, existing.name)),
            !.category         = Val(ToUpperCase(OrExistingChars(d.category, existing.category))),
            !.costPrice        = IfChanged(d.costPrice, existing.costPrice, AbsentNumber),
            !.sellingPrice     = Val(OrExistingNumber(d.sellingPrice, existing.sellingPrice)),
            !.quantity         = Val(OrExistingNumber(d.quantity, existing.quantity)),
            !.visibleOnWebsite = Val(BoolString(IF d.visibleOnWebsite.defined
                                                THEN d.visibleOnWebsite.v
                                                ELSE existing.visibleOnWebsite)),
            !.discountType     = IF keeps THEN Val(data.discountType)
                                 ELSE IF removes THEN Val("") ELSE AbsentString,
            !.discountValue    = IF keeps THEN Val(data.discountValue)
                                 ELSE IF removes THEN Val(NoNumber) ELSE AbsentNum,
            !.discountStartAt  = IF keeps
                                 THEN (IF data.discountStartAt.defined
                                       THEN Val(Num(data.discountStartAt.v))
                                       ELSE Val(NoNumber))
                                 ELSE IF removes THEN Val(NoNumber) ELSE AbsentNum,
            !.discountEndAt    = IF keeps \/ removes THEN Val(NoNumber) ELSE AbsentNum]

UpdateCalls ==
    {[fn |-> "productsApi.update", mock |-> mock, data |-> data, existing |-> ExistingProduct] :
        mock \in BOOLEAN, data \in FormDatas}
        \cup {[fn |-> "productsApi.updateLatest", data |-> data, existing |-> ExistingProduct] :
                  data \in FormDatasLatest}

\* The mock store answers with the updated product; otherwise the request goes
\* out unless it has no field, and the backend stores the cost price it is sent.
UpdateProduct ==
    /\ call.fn = "productsApi.update" /\ ~Returned
    /\ result' =
          IF call.mock
          THEN [kind |-> "product", formData |-> NoFields, sent |-> FALSE,
                costPrice |-> UpdateMock(call.data, call.existing).costPrice]
          ELSE LET formData == UpdateRequest(call.data, call.existing)
               IN  [kind |-> "request", formData |-> formData,
                    sent |-> formData # NoFields,
                    costPrice |-> IF formData.costPrice.defined THEN formData.costPrice.v
                                  ELSE call.existing.costPrice]
    /\ UNCHANGED call

UpdateProductLatest ==
    /\ call.fn = "productsApi.updateLatest" /\ ~Returned
    /\ result' =
          LET formData == UpdateRequestLatest(call.data, call.existing)
          IN  [kind |-> "request", formData |-> formData, sent |-> TRUE,
               costPrice |-> IF formData.costPrice.defined THEN formData.costPrice.v
                             ELSE call.existing.costPrice]
    /\ UNCHANGED call

-----------------------------------------------------------------------------
\* apiRequest: what a response resolves to.

\* Response.ok: a status in the range 200-299
Ok(status) == status \in 200..299

ResponseStatuses == {200, 201, 400, 401, 404, 500}

\* A response body: not JSON at all, or an object whose message, success
\* and data fields are each absent or present.
NotJson == [json |-> FALSE, message |-> AbsentString, success |-> "absent", data |-> "absent"]

JsonBodies ==
    [json    : {TRUE},
     message : {AbsentString, Val(""), Val("Out of stock")},
     success : {"absent", "true", "false", "null"},
     data    : {"absent", "null", "payload"}]

Responses == [status : ResponseStatuses, body : {NotJson} \cup JsonBodies]

Thrown(message) == [kind |-> "thrown", message |-> message, of |-> "none", data |-> "absent"]

ReturnedValue(of, data) == [kind |-> "returned", message |-> "", of |-> of, data |-> data]

\* error.message || fallback
MessageOr(body, fallback) ==
    IF body.message.defined /\ body.message.v # "" THEN body.message.v ELSE fallback

ApiRequestOutcomeIgnoresSuccess(response) ==
    IF response.status = 401 THEN Thrown("Unauthorized")
    ELSE IF ~Ok(response.status)
         THEN IF response.body.json THEN Thrown(MessageOr(response.body, "An error occurred"))
              ELSE Thrown("An error occurred")
    ELSE IF ~response.body.json THEN Thrown("SyntaxError")
    ELSE IF response.body.data # "absent" THEN ReturnedValue("data", response.body.data)
    ELSE ReturnedValue("body", "absent")

\* apiRequest from the response on: 401, then !response.ok, then
\* response.json(), the success flag and the unwrapping of data
ApiRequestOutcome(response) ==
    IF response.status = 401 THEN Thrown("Unauthorized")
    ELSE IF ~Ok(response.status)
         THEN IF response.body.json THEN Thrown(MessageOr(response.body, "An error occurred"))
              ELSE Thrown("An error occurred")
    ELSE IF ~response.body.json THEN Thrown("SyntaxError")
    ELSE IF response.body.success \in {"false", "null"}
         THEN Thrown(MessageOr(response.body, "API request failed"))
    ELSE IF response.body.data # "absent" THEN ReturnedValue("data", response.body.data)
    ELSE ReturnedValue("body", "absent")

ApiRequestCalls == {[fn |-> "apiRequest", arg |-> response] : response \in Responses}

ResolveResponse ==
    /\ call.fn = "apiRequest" /\ ~Returned
    /\ result' = ApiRequestOutcome(call.arg)
    /\ UNCHANGED call

-----------------------------------------------------------------------------
\* Pure functions of the client, each applied to inputs from bounded sets.

PureCalls ==
    StatusCalls \cup DiscountCalls \cup SummaryCalls \cup ReportCalls \cup UpdateCalls
        \cup ApiRequestCalls

InitPure ==
    /\ InitStore
    /\ \A p \in ProductIds : mockProducts[p].quantity = MaxFulfilments * Demand(p)
    /\ ScreenUnmounted /\ SignedOut
    /\ call \in PureCalls
    /\ result = NotReturned
    /\ RestIdle

NextPure ==
    \/ StatusRoundTrip /\ UNCHANGED <<storeVars, screenVars, authVars, restVars>>
    \/ MapRawStatus /\ UNCHANGED <<storeVars, screenVars, authVars, restVars>>
    \/ NormalizeStatus /\ UNCHANGED <<storeVars, screenVars, authVars, restVars>>
    \/ ResolvePrice /\ UNCHANGED <<storeVars, screenVars, authVars, restVars>>
    \/ ResolvePriceFlat /\ UNCHANGED <<storeVars, screenVars, authVars, restVars>>
    \/ PreviewWebsitePrice /\ UNCHANGED <<storeVars, screenVars, authVars, restVars>>
    \/ SummaryReturns /\ UNCHANGED <<storeVars, screenVars, authVars, restVars>>
    \/ RenderReport /\ UNCHANGED <<storeVars, screenVars, authVars, restVars>>
    \/ UpdateProduct /\ UNCHANGED <<storeVars, screenVars, authVars, restVars>>
    \/ UpdateProductLatest /\ UNCHANGED <<storeVars, screenVars, authVars, restVars>>
    \/ ResolveResponse /\ UNCHANGED <<storeVars, screenVars, authVars, restVars>>

SpecPure == InitPure /\ [][NextPure]_vars

-----------------------------------------------------------------------------
\* C11: a screen status sent to the backend and mapped back is the same status,
\* for each of pending, paid, completed and cancelled.
C11_StatusRoundTrip ==
    (call.fn = "updateStatus" /\ Returned) =>
        /\ result.ui = call.arg
        /\ result.sent \in {PENDING_PAYMENT, PAID, COMPLETED, CANCELLED}

C11_Witness ==
    /\ call.fn = "updateStatus" /\ Returned
    /\ call.arg = "completed"
    /\ result.sent = COMPLETED
    /\ result.ui = "completed"

\* Two strings are the same up to the case of their letters.
EqIgnoreCase(a, b) ==
    /\ Len(a) = Len(b)
    /\ \A i \in 1..Len(a) : a[i] = b[i] \/ UpperChar(a[i]) = b[i] \/ a[i] = UpperChar(b[i])

Names(raw, status) ==
    raw.kind = "string" /\ EqIgnoreCase(raw.chars, ToBackend(status))

\* A string that is no backend status name and no screen status name.
Unrecognised(raw) ==
    /\ raw.kind = "string"
    /\ raw.chars # <<>>
    /\ \A status \in OrderStatus :
          /\ ~EqIgnoreCase(raw.chars, ToBackend(status))
          /\ ~EqIgnoreCase(raw.chars, UiChars(status))

IsPercentage ==
    \/ call.fn = "getDiscountedPrice"
           /\ call.arg.discount.present /\ call.arg.discount.type = "percentage"
    \/ call.fn = "getDiscountedPriceFlat" /\ call.raw.discountType = "PERCENTAGE"

\* The call resolved a fixed discount.
IsFixed ==
    \/ call.fn = "getDiscountedPrice"
           /\ call.arg.discount.present /\ call.arg.discount.type = "fixed"
    \/ call.fn = "getDiscountedPriceFlat" /\ call.raw.discountType = "FIXED"

DiscountValue ==
    IF call.fn = "getDiscountedPrice" THEN call.arg.discount.value
    ELSE call.raw.discountValue.n

\* C13: for a selling price p >= 0 and a percentage value v in 0..100,
\* getDiscountedPrice returns p * (1 - v/100) rounded to the nearest integer, a
\* half going up, and the result is at most p.
C13_PercentagePrice ==
    (IsPercentage /\ DiscountValue \in 0..100 /\ Returned) =>
        /\ ~result.isNull
        /\ result.n = RoundHalfUp(call.arg.sellingPrice, DiscountValue)
        /\ result.n <= call.arg.sellingPrice

\* C14 as stated: for a selling price p >= 0 and a fixed value v >= 0,
\* getDiscountedPrice returns p - v.
C14_FixedPrice ==
    (IsFixed /\ Returned) => ~result.isNull /\ result.n = call.arg.sellingPrice - DiscountValue

\* C14: for a fixed discount getDiscountedPrice returns p - v, for v >= 0 with
\* the discount object of the first revision and for v > 0 with the flat
\* discount fields, where a value of 0 is no discount and the result is null.
C14_FixedPriceAboveZero ==
    (IsFixed /\ Returned) =>
        IF call.fn = "getDiscountedPriceFlat" /\ DiscountValue = 0
        THEN result.isNull
        ELSE ~result.isNull /\ result.n = call.arg.sellingPrice - DiscountValue

C14_Witness ==
    /\ call.fn = "getDiscountedPriceFlat"
    /\ call.raw.discountType = "FIXED"
    /\ call.arg.sellingPrice = SheaSellingPrice
    /\ call.raw.discountValue = Num(SheaDiscountValue)
    /\ result = Num(4000)

\* C15: the discounted price is never below 0, neither from getDiscountedPrice
\* nor in the product form's website price preview, also for a fixed discount
\* whose value exceeds the selling price.
C15_DiscountedPriceNeverNegative ==
    (call.fn \in {"getDiscountedPrice", "getDiscountedPriceFlat", "websitePricePreview"}
        /\ Returned /\ ~result.isNull) => result.n >= 0

\* The call resolved a product without a discount.
CarriesNoDiscount ==
    \/ call.fn = "getDiscountedPrice" /\ ~call.arg.discount.present
    \/ call.fn = "getDiscountedPriceFlat"
           /\ call.raw.discountType = "null" /\ call.raw.discountValue.isNull

\* C16: for a product that carries no discount getDiscountedPrice returns null,
\* whatever the selling price.
C16_NoDiscountIsNull ==
    (CarriesNoDiscount /\ Returned) => result.isNull

C16_Witness ==
    /\ call.fn = "getDiscountedPrice"
    /\ ~call.arg.discount.present
    /\ call.arg.sellingPrice = AnkaraSellingPrice
    /\ result = NoNumber

\* The time of the call is before the start or after the end of the window.
OutsideWindow ==
    \/ ~call.arg.discountStartAt.isNull /\ call.now < call.arg.discountStartAt.n
    \/ ~call.arg.discountEndAt.isNull /\ call.now > call.arg.discountEndAt.n

\* C17: getDiscountedPrice returns null when the current time is before
\* discountStartAt or after discountEndAt, and the discounted price inside the
\* window and when both bounds are absent.
C17_DiscountWindow ==
    (call.fn = "getDiscountedPriceFlat" /\ ~Falsy(call.arg.discountValue) /\ Returned) =>
        IF OutsideWindow THEN result.isNull ELSE ~result.isNull

\* The sales of the call's ledger that its period selects.
Selected == FilterSales(call.ledger, call.period, call.now)

RECURSIVE SumOfBuckets(_, _)
SumOfBuckets(buckets, keys) ==
    IF keys = {} THEN 0
    ELSE LET k == CHOOSE x \in keys : TRUE
         IN  buckets[k] + SumOfBuckets(buckets, keys \ {k})

RECURSIVE SumOver(_, _)
SumOver(amounts, indices) ==
    IF indices = {} THEN 0
    ELSE LET i == CHOOSE x \in indices : TRUE
         IN  amounts[i] + SumOver(amounts, indices \ {i})

\* C18: the summary has totalSales equal to the sum of totalAmount of the
\* selected sales, totalProfit to the sum of their profit, totalTransactions to
\* their number, and the amounts per payment method and per category each add up
\* to totalSales.
C18_SummaryTotals ==
    (call.fn = "getSummary" /\ Returned) =>
        /\ result.totalSales =
               SumOver([i \in 1..Len(Selected) |-> Selected[i].sale.totalAmount],
                       1..Len(Selected))
        /\ result.totalProfit =
               SumOver([i \in 1..Len(Selected) |-> Selected[i].sale.profit],
                       1..Len(Selected))
        /\ result.totalTransactions = Len(Selected)
        /\ SumOfBuckets(result.salesByPayment, DOMAIN result.salesByPayment)
               = result.totalSales
        /\ SumOfBuckets(result.salesByCategory, DOMAIN result.salesByCategory)
               = result.totalSales
        /\ DOMAIN result.salesByPayment = {Selected[i].sale.paymentMethod : i \in 1..Len(Selected)}

\* The three sales of the 6th: 30000/14000 cash, 45000/20000 transfer, 12000/7000 cash.
C18_Witness ==
    /\ call.fn = "getSummary" /\ Returned
    /\ call.period = "daily" /\ call.now = SecondSaleDay
    /\ call.ledger = FixtureLedger
    /\ result.totalSales = 87000
    /\ result.totalProfit = 41000
    /\ result.totalTransactions = 3
    /\ result.salesByPayment = [m \in PaymentMethod |-> IF m = "cash" THEN 42000 ELSE 45000]

\* C19: an empty selection gives revenue 0, profit 0, 0 transactions and empty
\* breakdowns, and the Reports screen renders no profit-margin bar for a report
\* whose revenue is 0.
C19_EmptySummaryAndNoMarginBar ==
    /\ (call.fn = "getSummary" /\ Returned /\ Selected = <<>>) =>
          /\ result.totalSales = 0
          /\ result.totalProfit = 0
          /\ result.totalTransactions = 0
          /\ DOMAIN result.salesByCategory = {}
          /\ DOMAIN result.salesByPayment = {}
    /\ (call.fn = "Reports" /\ Returned /\ call.arg.revenue = 0) => ~result.marginBar

C19_WitnessNoMarginBar ==
    /\ call.fn = "Reports" /\ Returned
    /\ call.arg.revenue = 0
    /\ call.arg.profitMargin = NoNumber
    /\ ~result.marginBar

C19_Witness ==
    /\ call.fn = "getSummary" /\ Returned
    /\ call.period = "daily"
    /\ Selected = <<>>
    /\ result.totalSales = 0

\* C20: productsApi.update never sends a costPrice field, and the product's
\* cost price after the update is the one it had before, whatever the form data.
C20_UpdateNeverSendsCostPrice ==
    (call.fn \in {"productsApi.update", "productsApi.updateLatest"} /\ Returned) =>
        /\ ~result.formData.costPrice.defined
        /\ result.costPrice = call.existing.costPrice

-----------------------------------------------------------------------------
\* The mock store under product creation, edit and deletion, and the
\* dashboard's statistics.

MaxCreated == 1

\* mockProducts.filter(p => p.quantity <= 5)
LowStockThreshold == 5

IsLowStockBelowThreshold(product) == product.quantity < LowStockThreshold

IsLowStock(product) == product.quantity <= LowStockThreshold

\* String(nextProductId++)
ProductIdString(n) ==
    CASE n = 11 -> "11"
      [] n = 12 -> "12"
      [] n = 13 -> "13"

\* Quantities typed into the product form: at the threshold, above it, none.
FormQuantities == {0, LowStockThreshold, LowStockThreshold + 1}

\* productsApi.create on the mock store
ProductsCreate(data) ==
    /\ nextProductId < 11 + MaxCreated
    /\ mockProducts' =
          [p \in DOMAIN mockProducts \cup {ProductIdString(nextProductId)} |->
              IF p = ProductIdString(nextProductId) THEN data ELSE mockProducts[p]]
    /\ nextProductId' = nextProductId + 1
    /\ lastCall' = [op |-> "productsApi.create", error |-> "none"]
    /\ UNCHANGED <<mockSales, nextSaleId, mockOrders, deducted, today>>

\* productsApi.update on the mock store: { ...mockProducts[index], ...data }
ProductsUpdate(id, data) ==
    /\ IF id \notin DOMAIN mockProducts
       THEN /\ lastCall' = [op |-> "productsApi.update", error |-> "Product not found"]
            /\ UNCHANGED mockProducts
       ELSE /\ lastCall' = [op |-> "productsApi.update", error |-> "none"]
            /\ mockProducts' =
                  [mockProducts EXCEPT
                      ![id].costPrice    = IF data.costPrice.defined THEN data.costPrice.v ELSE @,
                      ![id].sellingPrice = IF data.sellingPrice.defined
                                           THEN data.sellingPrice.v ELSE @,
                      ![id].quantity     = IF data.quantity.defined THEN data.quantity.v ELSE @]
    /\ UNCHANGED <<mockSales, nextSaleId, mockOrders, deducted, nextProductId, today>>

\* productsApi.delete on the mock store
ProductsDelete(id) ==
    /\ mockProducts' = [p \in DOMAIN mockProducts \ {id} |-> mockProducts[p]]
    /\ lastCall' = [op |-> "productsApi.delete", error |-> "none"]
    /\ UNCHANGED <<mockSales, nextSaleId, mockOrders, deducted, nextProductId, today>>

\* The day of a sale's createdAt: the mock sales' own days, today for the rest.
SaleDay(i) ==
    IF i <= 3 THEN SecondSaleDay
    ELSE IF i <= Len(FixtureSales) THEN FirstSaleDay
    ELSE today

RECURSIVE SumOfSales(_, _, _)
\* todaySales.reduce((sum, s) => sum + s.totalAmount, 0), the same for profit
SumOfSales(sales, indices, field) ==
    IF indices = {} THEN 0
    ELSE LET i == CHOOSE x \in indices : TRUE
         IN  (IF field = "profit" THEN sales[i].profit ELSE sales[i].totalAmount)
                 + SumOfSales(sales, indices \ {i}, field)

\* dashboardApi.getStats on the mock store
GetStats ==
    LET todaySales == {i \in 1..Len(mockSales) : SaleDay(i) = today}
        lowStock == {p \in DOMAIN mockProducts : IsLowStock(mockProducts[p])}
    IN  /\ call' = [fn |-> "getStats"]
        /\ result' = [kind              |-> "stats",
                      todaySales        |-> SumOfSales(mockSales, todaySales, "totalAmount"),
                      todayProfit       |-> SumOfSales(mockSales, todaySales, "profit"),
                      todayTransactions |-> Cardinality(todaySales),
                      lowStockItems     |-> [p \in lowStock |-> mockProducts[p]],
                      pendingOrders     |-> Cardinality({o \in DOMAIN mockOrders :
                                                mockOrders[o].status = "pending"})]
        /\ lastCall' = [op |-> "dashboardApi.getStats", error |-> "none"]
        /\ UNCHANGED <<mockProducts, mockSales, nextSaleId, mockOrders, deducted, inventoryVars>>

ProductFormInputs ==
    [costPrice : {FixtureProduct("4").costPrice},
     sellingPrice : {FixtureProduct("4").sellingPrice},
     quantity : FormQuantities]

ProductEditInputs ==
    [costPrice : {AbsentNumber},
     sellingPrice : {AbsentNumber},
     quantity : {AbsentNumber} \cup {Val(q) : q \in FormQuantities}]

\* The value a call returned is dropped by the next call.
DropResult ==
    /\ call' = [fn |-> "none"]
    /\ result' = NotReturned

\* The store with each mock product's stock at one fulfilment of the orders
\* (5, 2 and 1); the calls are all made on the day of the last mock sales.
InitInventory ==
    /\ InitStore
    /\ \A p \in ProductIds : mockProducts[p].quantity = Demand(p)
    /\ ScreenUnmounted /\ SignedOut /\ NothingCalled /\ RestIdle

\* The pending order moves forward: to paid, completed or cancelled.  The
\* edited product is the one the pending order asks for; the deleted one is
\* the created product or one the paid order holds.
NextInventory ==
    \/ (\E data \in {d \in SaleInputs : d.paymentMethod = "cash"} :
            SalesCreate(data, IF data.productId \in DOMAIN mockProducts
                              THEN mockProducts[data.productId].sellingPrice ELSE 0))
           /\ DropResult /\ UNCHANGED <<screenVars, authVars, restVars>>
    \/ (\E status \in OrderStatus \ {"pending"} : OrdersUpdateStatus("o4", status))
           /\ DropResult /\ UNCHANGED <<screenVars, authVars, restVars>>
    \/ (\E data \in ProductFormInputs : ProductsCreate(data))
           /\ DropResult /\ UNCHANGED <<screenVars, authVars, salesVars, filterVars, formVars>>
    \/ (\E id \in {"4", MissingProductId}, data \in ProductEditInputs :
            ProductsUpdate(id, data))
           /\ DropResult /\ UNCHANGED <<screenVars, authVars, salesVars, filterVars, formVars>>
    \/ (\E id \in {"9", "11", MissingProductId} : ProductsDelete(id))
           /\ DropResult /\ UNCHANGED <<screenVars, authVars, salesVars, filterVars, formVars>>
    \/ GetStats /\ UNCHANGED <<screenVars, authVars, salesVars, filterVars, formVars>>

SpecInventory == InitInventory /\ [][NextInventory]_vars

\* C21: after any sequence of sales, order fulfilments and product creations,
\* edits and deletions, the low-stock list getStats returns is exactly the set
\* of the current products whose quantity is at most 5.
C21_LowStockList ==
    lastCall.op = "dashboardApi.getStats" =>
        /\ DOMAIN result.lowStockItems =
               {p \in DOMAIN mockProducts : mockProducts[p].quantity <= 5}
        /\ \A p \in DOMAIN result.lowStockItems : result.lowStockItems[p] = mockProducts[p]

\* A created product at the threshold is listed, after a sale, a fulfilment
\* and a deletion.
C21_Witness ==
    /\ lastCall.op = "dashboardApi.getStats"
    /\ "11" \in DOMAIN result.lowStockItems
    /\ result.lowStockItems["11"].quantity = 5
    /\ Len(mockSales) > Len(FixtureSales)
    /\ \E o \in OrderIds : deducted[o] >= 1
    /\ DOMAIN mockProducts # ProductIds \cup {"11"}
    /\ \E p \in DOMAIN mockProducts : mockProducts[p].quantity > 5

C23_RejectedPaymentTakesNothing ==
    [][\A id \in OrderIds :
          ( /\ OrdersUpdateStatus(id, "paid")
            /\ mockOrders[id].status = "pending"
            /\ lastCall'.error = "Insufficient stock" )
          => mockProducts' = mockProducts]_vars

\* C24 (as stated): over any sequence of ordersApi.updateStatus calls on the
\* mock store, the items of one order are taken from stock at most once.
C24_ItemsDeductedAtMostOnce ==
    \A o \in OrderIds : deducted[o] <= 1

-----------------------------------------------------------------------------
\* The Sales screen (pages/Sales.tsx).

\* setProducts(data.filter(p => p.quantity > 0)) on the store's products
InStock(store) ==
    LET ids == {p \in DOMAIN store : store[p].quantity > 0}
    IN  [p \in ids |-> [id |-> p, quantity |-> store[p].quantity]]

\* The sale form is rendered: neither the success screen nor the product list.
SaleFormShown == ~saleSuccess /\ selectedProduct # NoProduct

\* The product list is rendered.
ProductListShown == ~saleSuccess /\ selectedProduct = NoProduct

\* loadProducts after productsApi.getAll settled, with the list or an error
LoadProductsSettles ==
    /\ productLoads > 0
    /\ productLoads' = productLoads - 1
    /\ \E ok \in BOOLEAN :
           productList' = IF ok THEN InStock(mockProducts) ELSE productList
    /\ salesLoading' = FALSE
    /\ UNCHANGED <<selectedProduct, quantity, paymentMethod, submitting, saleSuccess,
                   saleRequest, resetTimer>>
    /\ UNCHANGED storeVars

\* onClick of a product of the list
SelectProduct(p) ==
    /\ ProductListShown /\ ~salesLoading
    /\ p \in DOMAIN productList
    /\ selectedProduct' = productList[p]
    /\ UNCHANGED <<productList, salesLoading, quantity, paymentMethod, submitting, saleSuccess,
                   productLoads, saleRequest, resetTimer>>
    /\ UNCHANGED storeVars

\* 'Change'
ChangeProduct ==
    /\ SaleFormShown
    /\ selectedProduct' = NoProduct
    /\ UNCHANGED <<productList, salesLoading, quantity, paymentMethod, submitting, saleSuccess,
                   productLoads, saleRequest, resetTimer>>
    /\ UNCHANGED storeVars

Max(a, b) == IF a >= b THEN a ELSE b

Min(a, b) == IF a <= b THEN a ELSE b

\* the minus button
MinusQuantity ==
    /\ SaleFormShown
    /\ quantity' = Max(1, quantity - 1)
    /\ UNCHANGED <<productList, salesLoading, selectedProduct, paymentMethod, submitting, saleSuccess,
                   productLoads, saleRequest, resetTimer>>
    /\ UNCHANGED storeVars

\* the plus button
PlusQuantity ==
    /\ SaleFormShown
    /\ quantity' = Min(selectedProduct.quantity, quantity + 1)
    /\ UNCHANGED <<productList, salesLoading, selectedProduct, paymentMethod, submitting, saleSuccess,
                   productLoads, saleRequest, resetTimer>>
    /\ UNCHANGED storeVars

\* the Cash and Transfer buttons
SetPaymentMethod(method) ==
    /\ SaleFormShown
    /\ paymentMethod' = method
    /\ UNCHANGED <<productList, salesLoading, selectedProduct, quantity, submitting, saleSuccess,
                   productLoads, saleRequest, resetTimer>>
    /\ UNCHANGED storeVars

\* handleSubmitSale up to its await; the button is disabled while submitting
HandleSubmitSale ==
    /\ SaleFormShown /\ ~submitting
    /\ submitting' = TRUE
    /\ saleRequest' = [productId |-> selectedProduct.id, quantity |-> quantity,
                       paymentMethod |-> paymentMethod]
    /\ UNCHANGED <<productList, salesLoading, selectedProduct, quantity, paymentMethod, saleSuccess,
                   productLoads, resetTimer>>
    /\ UNCHANGED storeVars

\* handleSubmitSale from its await on, salesApi.create having run on the store
SaleSettles ==
    /\ saleRequest # NoSaleRequest
    /\ SalesCreateFirst(saleRequest)
    /\ IF lastCall'.error = "none"
       THEN saleSuccess' = TRUE /\ resetTimer' = TRUE
       ELSE UNCHANGED <<saleSuccess, resetTimer>>
    /\ submitting' = FALSE
    /\ saleRequest' = NoSaleRequest
    /\ UNCHANGED <<productList, salesLoading, selectedProduct, quantity, paymentMethod,
                   productLoads>>

\* handleSubmitSale from its await on, the request having failed before it
\* reached the store
SaleRejected ==
    /\ saleRequest # NoSaleRequest
    /\ submitting' = FALSE
    /\ saleRequest' = NoSaleRequest
    /\ UNCHANGED <<productList, salesLoading, selectedProduct, quantity, paymentMethod, saleSuccess,
                   productLoads, resetTimer>>
    /\ UNCHANGED storeVars

\* the setTimeout callback of handleSubmitSale
ResetAfterSale ==
    /\ resetTimer
    /\ resetTimer' = FALSE
    /\ saleSuccess' = FALSE
    /\ selectedProduct' = NoProduct
    /\ quantity' = 1
    /\ paymentMethod' = "cash"
    /\ productLoads' = productLoads + 1
    /\ UNCHANGED <<productList, salesLoading, submitting, saleRequest>>
    /\ UNCHANGED storeVars

\* The stock the Sales screen is opened on: earlier sales have brought the
\* fixture's levels down to two units, one unit and none.
SalesStock == [p \in ProductIds |-> CASE p = "4" -> 2 [] p = "6" -> 1 [] p = "9" -> 0]

\* The Sales screen mounted on the store: useEffect has called loadProducts.
InitSalesScreen ==
    /\ mockProducts = [p \in ProductIds |->
                          [FixtureProduct(p) EXCEPT !.quantity = SalesStock[p]]]
    /\ mockSales = FixtureSales
    /\ nextSaleId = Len(FixtureSales) + 1
    /\ mockOrders = [o \in OrderIds |-> FixtureOrder(o)]
    /\ lastCall = NoCall
    /\ deducted = [o \in OrderIds |-> 0]
    /\ ScreenUnmounted /\ SignedOut /\ NothingCalled /\ InventoryIdle /\ FiltersUnset
    /\ FormsUnmounted
    /\ SalesState
    /\ productLoads = 1

NextSalesScreen ==
    \/ LoadProductsSettles /\ UNCHANGED <<screenVars, authVars, pureVars, inventoryVars, filterVars, formVars>>
    \/ \E p \in ProductIds :
           SelectProduct(p) /\ UNCHANGED <<screenVars, authVars, pureVars, inventoryVars, filterVars, formVars>>
    \/ ChangeProduct /\ UNCHANGED <<screenVars, authVars, pureVars, inventoryVars, filterVars, formVars>>
    \/ MinusQuantity /\ UNCHANGED <<screenVars, authVars, pureVars, inventoryVars, filterVars, formVars>>
    \/ PlusQuantity /\ UNCHANGED <<screenVars, authVars, pureVars, inventoryVars, filterVars, formVars>>
    \/ \E method \in PaymentMethod :
           SetPaymentMethod(method) /\ UNCHANGED <<screenVars, authVars, pureVars, inventoryVars, filterVars, formVars>>
    \/ HandleSubmitSale /\ UNCHANGED <<screenVars, authVars, pureVars, inventoryVars, filterVars, formVars>>
    \/ SaleSettles /\ UNCHANGED <<screenVars, authVars, pureVars, inventoryVars, filterVars, formVars>>
    \/ SaleRejected /\ UNCHANGED <<screenVars, authVars, pureVars, inventoryVars, filterVars, formVars>>
    \/ ResetAfterSale /\ UNCHANGED <<screenVars, authVars, pureVars, inventoryVars, filterVars, formVars>>

SpecSalesScreen == InitSalesScreen /\ [][NextSalesScreen]_vars

\* C25 (as stated): whenever the sale form is shown for a selected product,
\* the chosen quantity is at least 1 and at most the selected product's
\* quantity.
C25_QuantityWithinStock ==
    SaleFormShown => (1 <= quantity /\ quantity <= selectedProduct.quantity)

-----------------------------------------------------------------------------
\* The latest Orders screen with its list filters (types/index.ts Orders).

OrderNumber(o) ==
    CASE o = "o2" -> <<"J", "D", "C", "-", "0", "0", "0", "2">>
      [] o = "o4" -> <<"J", "D", "C", "-", "0", "0", "0", "4">>

CustomerName(o) ==
    CASE o = "o2" -> <<"C", "h", "i", "k", "a", " ", "E", "z", "e">>
      [] o = "o4" -> <<"N", "g", "o", "z", "i", " ", "O", "b", "i">>

\* String.prototype.includes
Includes(chars, part) ==
    \E i \in 0..(Len(chars) - Len(part)) : SubSeq(chars, i + 1, i + Len(part)) = part

\* statusFilters
StatusFilters == {"all", "pending", "completed", "cancelled"}

\* The texts typed into the search box.
SearchTexts == {<< >>, <<"C", "h", "i">>, <<"0", "4">>, <<"x">>}

\* The dates picked in the date inputs; '' is the cleared input.
DateInputs == {"", "2026-02-05"}

\* The search test of the filtering effect.
MatchesSearch(o, text) ==
    \/ Includes(ToLowerCase(OrderNumber(o)), ToLowerCase(text))
    \/ Includes(ToLowerCase(CustomerName(o)), ToLowerCase(text))

FilterOrdersIgnoringStatus(all, filter, text) ==
    [o \in OrderIds |->
        IF /\ all[o] # "absent"
           /\ (text # << >> => MatchesSearch(o, text))
        THEN all[o] ELSE "absent"]

\* The filtering effect: the orders of allOrders that pass the status
\* filter and the search.
FilterOrders(all, filter, text) ==
    [o \in OrderIds |->
        IF /\ all[o] # "absent"
           /\ (filter # "all" => all[o] = filter)
           /\ (text # << >> => MatchesSearch(o, text))
        THEN all[o] ELSE "absent"]

\* loadAllOrders: params built from the values of the render whose handler
\* is running.
BuildParams(start, end, specific, todayOnly) ==
    [startDate |-> start, endDate |-> end, date |-> specific, today |-> todayOnly]

\* The controls of the page are reachable: no dialog covers them.
PageShown == selectedOrder = NoOrder /\ ~cancelDialogOpen

\* Search input onChange, and its X button
SetSearch(text) ==
    /\ PageShown
    /\ search' = text
    /\ orders' = FilterOrders(allOrders, statusFilter, text)
    /\ UNCHANGED <<statusFilter, startDate, endDate, specificDate, todayFilter,
                   showDateFilters, lastParams>>
    /\ UNCHANGED <<screenVars, storeVars>>

\* A status filter button
SetStatusFilter(filter) ==
    /\ PageShown
    /\ statusFilter' = filter
    /\ orders' = FilterOrders(allOrders, filter, search)
    /\ UNCHANGED <<search, startDate, endDate, specificDate, todayFilter,
                   showDateFilters, lastParams>>
    /\ UNCHANGED <<screenVars, storeVars>>

\* The filter button of the header
ToggleDateFilters ==
    /\ PageShown
    /\ showDateFilters' = ~showDateFilters
    /\ UNCHANGED <<orders, search, statusFilter, startDate, endDate, specificDate,
                   todayFilter, lastParams>>
    /\ UNCHANGED <<screenVars, storeVars>>

\* 'Today only' checkbox onChange
SetTodayFilter(checked) ==
    /\ PageShown /\ showDateFilters
    /\ todayFilter' = checked
    /\ IF checked
       THEN specificDate' = "" /\ startDate' = "" /\ endDate' = ""
       ELSE UNCHANGED <<specificDate, startDate, endDate>>
    /\ UNCHANGED <<orders, search, statusFilter, showDateFilters, lastParams>>
    /\ UNCHANGED <<screenVars, storeVars>>

\* 'Specific Date' onChange
SetSpecificDate(value) ==
    /\ PageShown /\ showDateFilters
    /\ specificDate' = value
    /\ IF value # ""
       THEN todayFilter' = FALSE /\ startDate' = "" /\ endDate' = ""
       ELSE UNCHANGED <<todayFilter, startDate, endDate>>
    /\ UNCHANGED <<orders, search, statusFilter, showDateFilters, lastParams>>
    /\ UNCHANGED <<screenVars, storeVars>>

\* 'Start Date' onChange
SetStartDate(value) ==
    /\ PageShown /\ showDateFilters
    /\ startDate' = value
    /\ IF value # "" \/ endDate # ""
       THEN todayFilter' = FALSE /\ specificDate' = ""
       ELSE UNCHANGED <<todayFilter, specificDate>>
    /\ UNCHANGED <<orders, search, statusFilter, endDate, showDateFilters, lastParams>>
    /\ UNCHANGED <<screenVars, storeVars>>

\* 'End Date' onChange
SetEndDate(value) ==
    /\ PageShown /\ showDateFilters
    /\ endDate' = value
    /\ IF startDate # "" \/ value # ""
       THEN todayFilter' = FALSE /\ specificDate' = ""
       ELSE UNCHANGED <<todayFilter, specificDate>>
    /\ UNCHANGED <<orders, search, statusFilter, startDate, showDateFilters, lastParams>>
    /\ UNCHANGED <<screenVars, storeVars>>

\* handleApplyFilters
HandleApplyFilters ==
    /\ PageShown /\ showDateFilters
    /\ BagCardinality(inflight) < MaxInFlight
    /\ LoadAllOrders
    /\ lastParams' = BuildParams(startDate, endDate, specificDate, todayFilter)
    /\ showDateFilters' = FALSE
    /\ UNCHANGED <<orders, search, statusFilter, startDate, endDate, specificDate, todayFilter>>
    /\ UNCHANGED <<revision, allOrders, selectedOrder, cancelDialogOpen, updating>>
    /\ UNCHANGED storeVars

\* handleClearFilters: the six setters queue the cleared values for the
\* next render, and loadAllOrders, called in the same closure, builds its
\* params from the values of the current one.
HandleClearFilters ==
    /\ PageShown /\ showDateFilters
    /\ BagCardinality(inflight) < MaxInFlight
    /\ search' = << >>
    /\ statusFilter' = "all"
    /\ startDate' = ""
    /\ endDate' = ""
    /\ specificDate' = ""
    /\ todayFilter' = FALSE
    /\ LoadAllOrders
    /\ lastParams' = BuildParams(startDate, endDate, specificDate, todayFilter)
    /\ orders' = FilterOrders(allOrders, "all", << >>)
    /\ UNCHANGED showDateFilters
    /\ UNCHANGED <<revision, allOrders, selectedOrder, cancelDialogOpen, updating>>
    /\ UNCHANGED storeVars

\* The Refresh button: loadAllOrders of the current render
RefreshFiltered ==
    /\ Refresh
    /\ lastParams' = BuildParams(startDate, endDate, specificDate, todayFilter)
    /\ UNCHANGED <<orders, search, statusFilter, startDate, endDate, specificDate, todayFilter,
                   showDateFilters>>

\* A click on an order of the displayed list
SelectDisplayedOrder(o) ==
    /\ orders[o] # "absent"
    /\ SelectOrder(o)
    /\ UNCHANGED filterVars

\* The continuation of a handler, then the filtering effect when
\* setAllOrders was called.
SettleFiltered(r) ==
    /\ Settle(r)
    /\ orders' = IF r.ok THEN FilterOrders(allOrders', statusFilter, search) ELSE orders
    /\ UNCHANGED <<search, statusFilter, startDate, endDate, specificDate, todayFilter,
                   showDateFilters, lastParams>>

InitOrdersFilters ==
    /\ InitOrdersScreen
    /\ revision = "OrdersLatest"
    /\ \A p \in ProductIds : mockProducts[p].quantity = Demand(p)

NextOrdersFilters ==
    \/ RefreshFiltered /\ UNCHANGED <<authVars, pureVars, inventoryVars, salesVars, formVars>>
    \/ \E o \in OrderIds :
           SelectDisplayedOrder(o) /\ UNCHANGED <<authVars, pureVars, inventoryVars, salesVars, formVars>>
    \/ CloseDialog /\ UNCHANGED <<authVars, pureVars, restVars>>
    \/ \E status \in OrderStatus :
           HandleUpdateStatus(status) /\ UNCHANGED <<authVars, pureVars, restVars>>
    \/ OpenCancelDialog /\ UNCHANGED <<authVars, pureVars, restVars>>
    \/ KeepOrder /\ UNCHANGED <<authVars, pureVars, restVars>>
    \/ HandleCancelOrder /\ UNCHANGED <<authVars, pureVars, restVars>>
    \/ \E r \in BagToSet(inflight) : Answer(r) /\ UNCHANGED <<authVars, pureVars, restVars>>
    \/ \E r \in BagToSet(inflight) : Fail(r) /\ UNCHANGED <<authVars, pureVars, restVars>>
    \/ \E r \in BagToSet(inflight) :
           SettleFiltered(r) /\ UNCHANGED <<authVars, pureVars, inventoryVars, salesVars, formVars>>
    \/ \E text \in SearchTexts :
           SetSearch(text) /\ UNCHANGED <<authVars, pureVars, inventoryVars, salesVars, formVars>>
    \/ \E filter \in StatusFilters :
           SetStatusFilter(filter) /\ UNCHANGED <<authVars, pureVars, inventoryVars, salesVars, formVars>>
    \/ ToggleDateFilters /\ UNCHANGED <<authVars, pureVars, inventoryVars, salesVars, formVars>>
    \/ HandleApplyFilters /\ UNCHANGED <<authVars, pureVars, inventoryVars, salesVars, formVars>>
    \/ HandleClearFilters /\ UNCHANGED <<authVars, pureVars, inventoryVars, salesVars, formVars>>

\* The latest Orders screen with its list, search and status filter in use
\* and its date inputs left as they are; the dates do not enter the
\* filtering effect.
SpecOrdersFilters == InitOrdersFilters /\ [][NextOrdersFilters]_vars

NextOrdersDates ==
    \/ RefreshFiltered /\ UNCHANGED <<authVars, pureVars, inventoryVars, salesVars, formVars>>
    \/ \E r \in BagToSet(inflight) : Answer(r) /\ UNCHANGED <<authVars, pureVars, restVars>>
    \/ \E r \in BagToSet(inflight) : Fail(r) /\ UNCHANGED <<authVars, pureVars, restVars>>
    \/ \E r \in BagToSet(inflight) :
           SettleFiltered(r) /\ UNCHANGED <<authVars, pureVars, inventoryVars, salesVars, formVars>>
    \/ ToggleDateFilters /\ UNCHANGED <<authVars, pureVars, inventoryVars, salesVars, formVars>>
    \/ \E checked \in BOOLEAN :
           SetTodayFilter(checked) /\ UNCHANGED <<authVars, pureVars, inventoryVars, salesVars, formVars>>
    \/ \E value \in DateInputs :
           SetSpecificDate(value) /\ UNCHANGED <<authVars, pureVars, inventoryVars, salesVars, formVars>>
    \/ \E value \in DateInputs :
           SetStartDate(value) /\ UNCHANGED <<authVars, pureVars, inventoryVars, salesVars, formVars>>
    \/ \E value \in DateInputs :
           SetEndDate(value) /\ UNCHANGED <<authVars, pureVars, inventoryVars, salesVars, formVars>>
    \/ HandleApplyFilters /\ UNCHANGED <<authVars, pureVars, inventoryVars, salesVars, formVars>>
    \/ HandleClearFilters /\ UNCHANGED <<authVars, pureVars, inventoryVars, salesVars, formVars>>

\* The latest Orders screen with its date filters in use: the date
\* inputs, 'Apply Filters', 'Clear', Refresh and the loads they start.
SpecOrdersDates == InitOrdersFilters /\ [][NextOrdersDates]_vars

\* C26 (as stated): the reload started by 'Clear' on the Orders screen
\* requests the orders with no startDate, endDate, date or today parameter.
C26_ClearReloadsWithoutDates ==
    [][HandleClearFilters => lastParams' = NoParams]_vars

\* C27: on the latest Orders screen the displayed list is the orders of
\* allOrders that match the status filter and the search text, after any
\* load, filter change, search, status update and cancellation.
C27_DisplayedListIsFilteredList ==
    \A o \in OrderIds :
        /\ orders[o] # "absent" <=>
              /\ allOrders[o] # "absent"
              /\ statusFilter = "all" \/ allOrders[o] = statusFilter
              /\ search = << >> \/ MatchesSearch(o, search)
        /\ orders[o] # "absent" => orders[o] = allOrders[o]

\* C27 witness: a pending-only list from which a completed order has gone,
\* after a search that no longer hides it.
C27_Witness ==
    /\ statusFilter = "pending"
    /\ search = <<"0", "4">>
    /\ allOrders["o4"] = "completed"
    /\ allOrders["o2"] = "paid"
    /\ orders = [o \in OrderIds |-> "absent"]
    /\ inflight = EmptyBag

\* C28 (as stated): the latest productsApi.update sends the form's
\* sellingPrice and quantity whenever the form carries them, 0 included.
C28_UpdateSendsZero ==
    (call.fn = "productsApi.updateLatest" /\ Returned) =>
        LET form == call.data.shared IN
        /\ form.sellingPrice.defined => result.formData.sellingPrice = Val(form.sellingPrice.v)
        /\ form.quantity.defined => result.formData.quantity = Val(form.quantity.v)

-----------------------------------------------------------------------------
\* The status badge of the latest Orders screen.

\* The keys of statusConfig
StatusConfigKeys == {"pending", "completed", "cancelled"}

\* statusConfig[key].label
StatusLabel(key) ==
    CASE key = "pending"   -> "Pending"
      [] key = "completed" -> "Completed"
      [] key = "cancelled" -> "Cancelled"

\* statusConfig[normalizedStatus] || statusConfig.pending, then its label
BadgeLabel(status) ==
    LET normalizedStatus == GetNormalizedStatus(JsString(UiChars(status)))
        known == {key \in StatusConfigKeys : UiChars(key) = normalizedStatus}
    IN  IF known # {} THEN StatusLabel(CHOOSE key \in known : TRUE)
        ELSE StatusLabel("pending")

\* pendingCount counts the order
CountedPending(status) == status = "pending"

\* The 'Pending' status filter keeps the order
PendingFilterKeeps(status) ==
    FilterOrders([o \in OrderIds |-> status], "pending", << >>) = [o \in OrderIds |-> status]

\* The detail dialog offers 'Mark as Completed' and 'Cancel Order'
OffersPendingActions(status) ==
    GetNormalizedStatus(JsString(UiChars(status))) = UiChars("pending")

\* C30 (as stated): on the latest Orders screen every displayed order that
\* carries the 'Pending' badge is a pending order: it is counted as pending,
\* kept by the 'Pending' filter and offered 'Mark as Completed' and
\* 'Cancel Order'.
C30_PendingBadgeMeansPending ==
    \A o \in OrderIds :
        (orders[o] # "absent" /\ BadgeLabel(orders[o]) = "Pending") =>
            /\ CountedPending(orders[o])
            /\ PendingFilterKeeps(orders[o])
            /\ OffersPendingActions(orders[o])
            /\ OfferedStatus(revision, orders[o]) = {"completed"}
            /\ CancelOffered(revision, orders[o])

-----------------------------------------------------------------------------
\* The Login screen (pages/Login.tsx) and the product form of the
\* Inventory screen (pages/Inventory.tsx).

\* handleSubmit of Login up to its await; the submit button is disabled
\* while loading
HandleLoginSubmit ==
    /\ route = "/login" /\ ~loginLoading
    /\ loginLoading' = TRUE
    /\ loginRequest' = "sent"
    /\ UNCHANGED <<route, inventoryList, inventoryLoading, inventoryLoads, dialogOpen,
                   editingProduct, formSubmitting, formRequest>>
    /\ UNCHANGED <<storeVars, authVars>>

\* handleSubmit of Login from its await on: authApi.login has met a
\* response; navigate('/') on success, the toast otherwise, then finally
LoginSettles(status, accepted, accessToken) ==
    /\ loginRequest = "sent"
    /\ lastRequest' = [op |-> "authApi.login", status |-> status]
    /\ IF status = 200 /\ accepted
       THEN SetToken(Str(accessToken)) /\ location' = "/" /\ route' = "/"
       ELSE ApiRequestResponse(status) /\ UNCHANGED route
    /\ loginLoading' = FALSE
    /\ loginRequest' = "none"
    /\ UNCHANGED <<inventoryList, inventoryLoading, inventoryLoads, dialogOpen,
                   editingProduct, formSubmitting, formRequest>>
    /\ UNCHANGED storeVars

\* The user opens the login page again
OpenLogin ==
    /\ route = "/"
    /\ route' = "/login"
    /\ location' = "/login"
    /\ UNCHANGED <<authToken, storedToken, lastRequest>>
    /\ UNCHANGED <<loginLoading, loginRequest, inventoryList, inventoryLoading, inventoryLoads,
                   dialogOpen, editingProduct, formSubmitting, formRequest>>
    /\ UNCHANGED storeVars

\* loadProducts of Inventory after productsApi.getAll settled
InventoryLoadSettles ==
    /\ inventoryLoads > 0
    /\ inventoryLoads' = inventoryLoads - 1
    /\ \E ok \in BOOLEAN :
           inventoryList' = IF ok THEN DOMAIN mockProducts ELSE inventoryList
    /\ inventoryLoading' = FALSE
    /\ UNCHANGED <<route, loginLoading, loginRequest, dialogOpen, editingProduct,
                   formSubmitting, formRequest>>
    /\ UNCHANGED <<storeVars, inventoryVars>>

\* openAddDialog
OpenAddDialog ==
    /\ route = "/inventory" /\ ~dialogOpen
    /\ editingProduct' = "-"
    /\ dialogOpen' = TRUE
    /\ UNCHANGED <<route, loginLoading, loginRequest, inventoryList, inventoryLoading,
                   inventoryLoads, formSubmitting, formRequest>>
    /\ UNCHANGED <<storeVars, inventoryVars>>

\* openEditDialog on a product of the list
OpenEditDialog(p) ==
    /\ route = "/inventory" /\ ~dialogOpen
    /\ ~inventoryLoading /\ p \in inventoryList
    /\ editingProduct' = p
    /\ dialogOpen' = TRUE
    /\ UNCHANGED <<route, loginLoading, loginRequest, inventoryList, inventoryLoading,
                   inventoryLoads, formSubmitting, formRequest>>
    /\ UNCHANGED <<storeVars, inventoryVars>>

\* onOpenChange of the form dialog: it is dismissed
CloseFormDialog ==
    /\ dialogOpen
    /\ dialogOpen' = FALSE
    /\ UNCHANGED <<route, loginLoading, loginRequest, inventoryList, inventoryLoading,
                   inventoryLoads, editingProduct, formSubmitting, formRequest>>
    /\ UNCHANGED <<storeVars, inventoryVars>>

\* handleSubmit of Inventory up to its await; the form's button is disabled
\* while submitting
HandleSubmitForm(formQuantity) ==
    /\ dialogOpen /\ ~formSubmitting
    /\ inventoryLoads < MaxInFlight
    /\ formSubmitting' = TRUE
    /\ formRequest' = [op |-> IF editingProduct = "-" THEN "create" ELSE "update",
                       id |-> editingProduct, quantity |-> formQuantity]
    /\ UNCHANGED <<route, loginLoading, loginRequest, inventoryList, inventoryLoading,
                   inventoryLoads, dialogOpen, editingProduct>>
    /\ UNCHANGED <<storeVars, inventoryVars>>

\* FormSettles with setSubmitting(false) in the catch block only.
FormSettlesResetOnlyOnError ==
    /\ formRequest.op # "none"
    /\ IF formRequest.op = "create"
       THEN ProductsCreate([costPrice |-> FixtureProduct("4").costPrice,
                            sellingPrice |-> FixtureProduct("4").sellingPrice,
                            quantity |-> formRequest.quantity])
       ELSE ProductsUpdate(formRequest.id,
                           [costPrice |-> AbsentNumber, sellingPrice |-> AbsentNumber,
                            quantity |-> Val(formRequest.quantity)])
    /\ IF lastCall'.error = "none"
       THEN /\ dialogOpen' = FALSE
            /\ inventoryLoads' = inventoryLoads + 1
            /\ UNCHANGED formSubmitting
       ELSE /\ formSubmitting' = FALSE
            /\ UNCHANGED <<dialogOpen, inventoryLoads>>
    /\ formRequest' = NoFormRequest
    /\ UNCHANGED <<route, loginLoading, loginRequest, inventoryList, inventoryLoading,
                   editingProduct>>

\* handleSubmit of Inventory from its await on, productsApi.create or
\* productsApi.update having run on the store: the dialog closes and the
\* list reloads on success, the toast shows otherwise, then finally
FormSettles ==
    /\ formRequest.op # "none"
    /\ IF formRequest.op = "create"
       THEN ProductsCreate([costPrice |-> FixtureProduct("4").costPrice,
                            sellingPrice |-> FixtureProduct("4").sellingPrice,
                            quantity |-> formRequest.quantity])
       ELSE ProductsUpdate(formRequest.id,
                           [costPrice |-> AbsentNumber, sellingPrice |-> AbsentNumber,
                            quantity |-> Val(formRequest.quantity)])
    /\ IF lastCall'.error = "none"
       THEN /\ dialogOpen' = FALSE
            /\ inventoryLoads' = inventoryLoads + 1
       ELSE UNCHANGED <<dialogOpen, inventoryLoads>>
    /\ formSubmitting' = FALSE
    /\ formRequest' = NoFormRequest
    /\ UNCHANGED <<route, loginLoading, loginRequest, inventoryList, inventoryLoading,
                   editingProduct>>

\* handleSubmit of Inventory from its await on, the request having failed
\* before it reached the store
FormRejected ==
    /\ formRequest.op # "none"
    /\ formSubmitting' = FALSE
    /\ formRequest' = NoFormRequest
    /\ UNCHANGED <<route, loginLoading, loginRequest, inventoryList, inventoryLoading,
                   inventoryLoads, dialogOpen, editingProduct>>
    /\ UNCHANGED <<storeVars, inventoryVars>>

\* The products whose edit button is pressed.
EditedProducts == {"4"}

\* The Login screen mounted.
InitLogin ==
    /\ InitStore /\ (\A p \in ProductIds : mockProducts[p].quantity = Demand(p))
    /\ ScreenUnmounted /\ SignedOut /\ NothingCalled
    /\ InventoryIdle /\ SalesUnmounted /\ FiltersUnset
    /\ FormsState
    /\ route = "/login"
    /\ inventoryLoads = 0

\* The Inventory screen mounted: useEffect has called loadProducts.
InitInventoryScreen ==
    /\ InitStore /\ (\A p \in ProductIds : mockProducts[p].quantity = Demand(p))
    /\ ScreenUnmounted /\ SignedOut /\ NothingCalled
    /\ InventoryIdle /\ SalesUnmounted /\ FiltersUnset
    /\ FormsState
    /\ route = "/inventory"
    /\ inventoryLoads = 1

NextLogin ==
    \/ HandleLoginSubmit /\ UNCHANGED <<screenVars, pureVars, inventoryVars, salesVars, filterVars>>
    \/ \E status \in ResponseStatus, accepted \in BOOLEAN, accessToken \in AccessTokens :
           LoginSettles(status, accepted, accessToken)
               /\ UNCHANGED <<screenVars, pureVars, inventoryVars, salesVars, filterVars>>
    \/ OpenLogin /\ UNCHANGED <<screenVars, pureVars, inventoryVars, salesVars, filterVars>>

NextInventoryScreen ==
    \/ InventoryLoadSettles /\ UNCHANGED <<screenVars, authVars, pureVars, salesVars, filterVars>>
    \/ OpenAddDialog /\ UNCHANGED <<screenVars, authVars, pureVars, salesVars, filterVars>>
    \/ \E p \in EditedProducts :
           OpenEditDialog(p) /\ UNCHANGED <<screenVars, authVars, pureVars, salesVars, filterVars>>
    \/ CloseFormDialog /\ UNCHANGED <<screenVars, authVars, pureVars, salesVars, filterVars>>
    \/ \E formQuantity \in FormQuantities :
           HandleSubmitForm(formQuantity)
               /\ UNCHANGED <<screenVars, authVars, pureVars, salesVars, filterVars>>
    \/ FormSettles /\ UNCHANGED <<screenVars, authVars, pureVars, salesVars, filterVars>>
    \/ FormRejected /\ UNCHANGED <<screenVars, authVars, pureVars, salesVars, filterVars>>

\* One of the four screens is mounted.
InitScreens ==
    \/ InitSalesScreen
    \/ InitOrdersScreen
    \/ InitLogin
    \/ InitInventoryScreen

NextScreens ==
    \/ NextSalesScreen
    \/ NextOrdersScreen
    \/ NextLogin
    \/ NextInventoryScreen

\* The four screens, safety part.
SpecScreens == InitScreens /\ [][NextScreens]_vars

\* The promise a handler awaits settles: the mock's timer fires, or fetch
\* resolves or rejects.  One condition per awaited request.
SaleAnswered ==
    (SaleSettles \/ SaleRejected)
        /\ UNCHANGED <<screenVars, authVars, pureVars, inventoryVars, filterVars, formVars>>

UpdateAnswered ==
    \E r \in BagToSet(inflight) :
        /\ r.handler # "loadOrders"
        /\ Answer(r) \/ Fail(r)
        /\ UNCHANGED <<authVars, pureVars, restVars>>

UpdateSettled ==
    \E r \in BagToSet(inflight) :
        /\ r.handler # "loadOrders"
        /\ Settle(r)
        /\ UNCHANGED <<authVars, pureVars, restVars>>

LoginAnswered ==
    \E status \in ResponseStatus, accepted \in BOOLEAN, accessToken \in AccessTokens :
        LoginSettles(status, accepted, accessToken)
            /\ UNCHANGED <<screenVars, pureVars, inventoryVars, salesVars, filterVars>>

FormAnswered ==
    (FormSettles \/ FormRejected)
        /\ UNCHANGED <<screenVars, authVars, pureVars, salesVars, filterVars>>

RequestsSettle ==
    /\ WF_vars(SaleAnswered)
    /\ WF_vars(UpdateAnswered)
    /\ WF_vars(UpdateSettled)
    /\ WF_vars(LoginAnswered)
    /\ WF_vars(FormAnswered)

\* The four screens with every awaited request settling.
SpecScreensLive == InitScreens /\ [][NextScreens]_vars /\ RequestsSettle

\* C29: every request a screen action starts leaves its in-flight flag
\* false in the end, whether it succeeds or fails: submitting on the Sales
\* screen and on the product form, updating on the Orders screen, loading
\* on the Login screen.
C29_FlagsAreReset ==
    /\ submitting ~> ~submitting
    /\ formSubmitting ~> ~formSubmitting
    /\ updating ~> ~updating
    /\ loginLoading ~> ~loginLoading

\* C29 witness: a sale was submitted and refused ('Insufficient stock'),
\* and the sale form, still shown, is no longer submitting.
C29_Witness ==
    /\ lastCall = [op |-> "salesApi.create", error |-> "Insufficient stock"]
    /\ SaleFormShown /\ ~submitting
    /\ saleRequest = NoSaleRequest

=============================================================================
